---- MODULE Spec2Model ----
(***************************************************************************)
(* Model of the trading multi-agent system of                              *)
(* src/aap/teams/agents/trading_multi_agent_pydantic.py: the message       *)
(* model, the agent wrapper (TradingAgent.process_message), the six agent  *)
(* handlers, the router (send_message) and the five-stage workflow driver  *)
(* (execute_trading_workflow).                                             *)
(*                                                                         *)
(* Conventions.  A Python dict is a TLA+ function over its keys; the empty *)
(* dict is <<>>.  An Optional value is a set: {} is None, {v} holds v.     *)
(* uuid4() is a fresh number drawn from the counter next_uuid.  Fractions  *)
(* are in basis points (0.6 is 6000), prices and quantities in units.      *)
(* Timestamps (datetime.now()) are not part of the model.                  *)
(***************************************************************************)
EXTENDS Integers, Sequences, FiniteSets, TLC

VARIABLES
    agents,          \* TradingMultiAgentSystem.agents: key -> agent (name, layer)
    agent_registry,  \* TradingMultiAgentSystem.agent_registry: key -> AgentState
    agent_state,     \* TradingAgent.state of each agent
    memory,          \* TradingAgent.memory of each agent: message id -> entry
    task_queue,      \* TaskSchedulerAgent.task_queue
    next_uuid,       \* source of uuid4() values
    inflight,        \* caller -> the call suspended in `await _process_logic`
    completed,       \* caller -> the last finished send_message call
    calls,           \* number of send_message calls issued by clients
    wf_pc,           \* position of execute_trading_workflow
    wf_stage,        \* the stage the driver is at (1..5)
    market_data,     \* the argument of execute_trading_workflow
    result,          \* the TradingWorkflowResult of the run
    wf_sent,         \* the requests the driver passed to send_message, in order
    wf_log,          \* per stage: what happened to its request
    wf_runs,         \* number of execute_trading_workflow invocations started
    status_report,   \* what the last get_system_status call returned
    allocation,      \* an Allocation(...) construction: input, validated fields, errors
    wire,            \* a TradingMessage, its JSON wire form and the message parsed back
    tool             \* a tool wrapper call: position, external calls made, envelope

vars == <<agents, agent_registry, agent_state, memory, task_queue, next_uuid,
          inflight, completed, calls, wf_pc, wf_stage, market_data, result,
          wf_sent, wf_log, wf_runs, status_report, allocation, wire, tool>>

\* The state of the trading system's agents and of its callers.
agent_vars == <<agents, agent_registry, agent_state, memory, task_queue,
                next_uuid, inflight, completed, calls>>

\* The state of one run of the workflow driver.
workflow_vars == <<wf_pc, wf_stage, market_data, result, wf_sent, wf_log,
                   wf_runs>>

\* The value objects and the tool wrappers, which the trading system's
\* operations never touch.
object_vars == <<allocation, wire, tool>>

(***************************************************************************)
(* Bounds and input sets                                                   *)
(***************************************************************************)
MaxCalls == 1

\* How many send_message calls are gathered (the test gathers five).
MaxConcurrent == 2

\* How many messages a client sends to the task scheduler, one after another.
MaxCommands == 3

\* How many times execute_trading_workflow is invoked, one run after another.
MaxRuns == 2

\* How many send_message calls are gathered on one and the same agent.
MaxGathered == 3

CallerNames == <<"c1", "c2", "c3", "c4", "c5">>

\* The coroutines passed to asyncio.gather, one send_message call each.
GatherCallers == {CallerNames[i] : i \in 1..MaxConcurrent}

\* The coroutines of a gather whose calls all go to one agent.
SameAgentCallers == {CallerNames[i] : i \in 1..MaxGathered}

\* The workflow driver, a client awaiting each call before the next, and the
\* gathered coroutines.
Callers == {"wf", "client"} \cup GatherCallers \cup SameAgentCallers

FaultTexts == {"handler failed"}

\* A BaseException that is not an Exception (asyncio.CancelledError,
\* KeyboardInterrupt, SystemExit, GeneratorExit) raised in a handler.
BaseExceptionTexts == {"cancelled"}

EscapeTexts == {"send failed"}

(***************************************************************************)
(* Python helpers                                                          *)
(***************************************************************************)
None == {}

Some(x) == {x}

TheValue(s) == CHOOSE x \in s : TRUE

EmptyDict == <<>>

Get(d, k, default) == IF k \in DOMAIN d THEN d[k] ELSE default

(***************************************************************************)
(* Enumerations                                                            *)
(***************************************************************************)
LayerType == {"strategic", "tactical", "execution", "monitoring", "coordination"}

MessageType == {"command", "query", "response", "alert", "heartbeat"}

Priority == {"high", "medium", "low"}

(***************************************************************************)
(* TradingMessage                                                          *)
(***************************************************************************)
TradingMessage(id, sl, sa, tl, ta, mt, pr, pl, md) ==
    [message_id |-> id, source_layer |-> sl, source_agent |-> sa,
     target_layer |-> tl, target_agent |-> ta, message_type |-> mt,
     priority |-> pr, payload |-> pl, metadata |-> md]

(***************************************************************************)
(* The six agents, as _initialize_agents registers them                    *)
(***************************************************************************)
AgentKeys == {"portfolio_manager", "risk_manager", "strategy_research",
              "order_execution", "realtime_risk", "task_scheduler"}

PortfolioManagerAgent == [name |-> "PortfolioManager", layer |-> "strategic"]

RiskManagerAgent == [name |-> "RiskManager", layer |-> "strategic"]

StrategyResearchAgent == [name |-> "StrategyResearch", layer |-> "tactical"]

OrderExecutionAgent == [name |-> "OrderExecution", layer |-> "execution"]

RealTimeRiskAgent == [name |-> "RealTimeRisk", layer |-> "monitoring"]

\* Mutant: the scheduler's display name is its registry key.
TaskSchedulerAgent_KeyAsName == [name |-> "task_scheduler", layer |-> "coordination"]

TaskSchedulerAgent == [name |-> "TaskScheduler", layer |-> "coordination"]

InitializeAgents ==
    [portfolio_manager |-> PortfolioManagerAgent,
     risk_manager      |-> RiskManagerAgent,
     strategy_research |-> StrategyResearchAgent,
     order_execution   |-> OrderExecutionAgent,
     realtime_risk     |-> RealTimeRiskAgent,
     task_scheduler    |-> TaskSchedulerAgent]

AgentState(key, agent) ==
    [agent_id |-> key, name |-> agent.name, layer |-> agent.layer,
     status |-> "idle", memory_usage |-> EmptyDict]

\* Mutant: the registry is keyed by the agents' display names.
InitializeRegistry_ByName(ags) ==
    [n \in {ags[k].name : k \in DOMAIN ags} |->
        LET key == CHOOSE k \in DOMAIN ags : ags[k].name = n
        IN  AgentState(key, ags[key])]

InitializeRegistry(ags) == [k \in DOMAIN ags |-> AgentState(k, ags[k])]

(***************************************************************************)
(* Response construction                                                   *)
(***************************************************************************)
\* Mutant: the response is addressed to the request's target, not its source.
CreateResponse_KeepsTarget(self, original_message, payload, message_type, id) ==
    TradingMessage(id, self.layer, self.name,
                   original_message.target_layer, original_message.target_agent,
                   message_type, original_message.priority, payload,
                   [response_to |-> original_message.message_id])

\* Mutant: the response refers to itself and carries a fixed priority.
CreateResponse_OwnId(self, original_message, payload, message_type, id) ==
    TradingMessage(id, self.layer, self.name,
                   original_message.source_layer, original_message.source_agent,
                   message_type, "medium", payload,
                   [response_to |-> id])

CreateResponse(self, original_message, payload, message_type, id) ==
    TradingMessage(id, self.layer, self.name,
                   original_message.source_layer, original_message.source_agent,
                   message_type, original_message.priority, payload,
                   [response_to |-> original_message.message_id])

CreateErrorResponse(self, original_message, error_message, id) ==
    CreateResponse(self, original_message,
                   [error |-> error_message, status |-> "failed"], "alert", id)

(***************************************************************************)
(* Handlers (_process_logic).  A handler either returns the response it    *)
(* built or raises; Returned and Raised are its two outcomes.  `uuid` is   *)
(* the next fresh identifier and `queue` the scheduler's task queue after  *)
(* the handler ran.  `base` tells the class of what was raised: FALSE for  *)
(* an Exception, TRUE for a BaseException that is not an Exception.        *)
(***************************************************************************)
Returned(response, uuid, queue) ==
    [raised |-> FALSE, base |-> FALSE, error |-> "", response |-> Some(response),
     uuid |-> uuid, queue |-> queue]

Raised(text, uuid, queue) ==
    [raised |-> TRUE, base |-> FALSE, error |-> text, response |-> None,
     uuid |-> uuid, queue |-> queue]

RaisedBase(text, uuid, queue) ==
    [Raised(text, uuid, queue) EXCEPT !.base = TRUE]

PortfolioManagerLogic(self, message, uuid, queue) ==
    IF message.message_type = "query"
    THEN Returned(CreateResponse(self, message,
                      [allocation |-> [stocks |-> 6000, bonds |-> 3000,
                                       cash |-> 1000, rebalance_trigger |-> 500],
                       expected_return |-> 800,
                       expected_volatility |-> 1500,
                       sharpe_ratio |-> 5300],
                      "response", uuid), uuid + 1, queue)
    ELSE Returned(CreateResponse(self, message,
                      [status |-> "received", agent |-> self.name],
                      "response", uuid), uuid + 1, queue)

RiskMetricsDump ==
    [portfolio_var |-> 200, expected_shortfall |-> 350, max_drawdown |-> 1500,
     beta |-> 11000,
     risk_limits |-> [max_position_size |-> 1000, max_sector_exposure |-> 2500,
                      stop_loss |-> 500]]

RiskManagerLogic(self, message, uuid, queue) ==
    Returned(CreateResponse(self, message,
                 [risk_metrics |-> RiskMetricsDump,
                  risk_status |-> "within_limits",
                  recommendations |-> <<"Consider reducing tech sector exposure",
                                        "Implement tighter stop-losses",
                                        "Increase cash allocation">>],
                 "response", uuid), uuid + 1, queue)

\* TradingSignal(...).model_dump() (lines 102-113): always the seven keys of
\* the model.  signal and confidence are plain values; entry_price,
\* stop_loss, take_profit, position_size and reason are declared `| None`, so
\* each is an Optional value: {v} holds v and {} is None.
TradingSignalDump(signal, confidence, entry_price, stop_loss, take_profit, position_size, reason) ==
    [signal |-> signal, confidence |-> confidence, entry_price |-> entry_price,
     stop_loss |-> stop_loss, take_profit |-> take_profit,
     position_size |-> position_size, reason |-> reason]

\* The signal the source's StrategyResearchAgent builds (lines 392-399):
\* reason is not given and takes its default, None.
SourceSignal ==
    TradingSignalDump("BUY", 7500, Some(100), Some(95), Some(110), Some(500),
                      None)

\* The signals a tactical handler is given to produce: the source's constant
\* signal and other dumps TradingSignal accepts (entry_price is ge=0 and may
\* be None), so that the driver's branch on the signal is taken both ways.
SignalChoices ==
    { SourceSignal,
      [SourceSignal EXCEPT !.entry_price = Some(250)],
      [SourceSignal EXCEPT !.entry_price = Some(0)],
      TradingSignalDump("BUY", 7500, None, None, None, None, None),
      TradingSignalDump("HOLD", 5000, None, None, None, None, Some("no edge")),
      TradingSignalDump("SELL", 6000, Some(100), None, None, None, None) }

StrategyResearchLogic(self, message, signal, uuid, queue) ==
    LET strategy_type == Get(message.payload, "strategy_type", "momentum")
    IN  Returned(CreateResponse(self, message,
                     [strategy_type |-> strategy_type,
                      signals |-> signal,
                      backtest_stats |-> [sharpe_ratio |-> 12000,
                                          max_drawdown |-> 800,
                                          win_rate |-> 6500,
                                          profit_factor |-> 15000]],
                     "response", uuid), uuid + 1, queue)

\* OrderPlan's field constraints (lines 129-133).  `price` is the value read
\* from the order dict, which may be None ({}): a float is required, so None
\* fails validation as a price that is not positive does.
OrderPlanValid(symbol, side, quantity, price) ==
    /\ symbol # ""
    /\ side \in {"BUY", "SELL"}
    /\ quantity > 0
    /\ price # None
    /\ TheValue(price) > 0

OrderPlan(order_id, symbol, side, quantity, price) ==
    [order_id |-> order_id, symbol |-> symbol, side |-> side,
     quantity |-> quantity, order_type |-> "LIMIT", price |-> price,
     algorithm |-> "VWAP", expected_slippage |-> 0, estimated_fees |-> 0]

\* OrderPlan(...) at lines 445-450: pydantic fills order_id from its
\* default_factory (line 128, uuid.uuid4) while validating, before the errors
\* of the other fields are raised, so a rejected order has drawn one
\* identifier too: the alert that follows carries the next one.
OrderExecutionLogic(self, message, uuid, queue) ==
    LET order_request == Get(message.payload, "order", EmptyDict)
        symbol   == Get(order_request, "symbol", "AAPL")
        side     == Get(order_request, "side", "BUY")
        quantity == Get(order_request, "quantity", 100)
        price    == Get(order_request, "price", Some(100))
    IN  IF ~OrderPlanValid(symbol, side, quantity, price)
        THEN Raised("validation error for OrderPlan", uuid + 1, queue)
        ELSE Returned(CreateResponse(self, message,
                          [execution_plan |->
                               OrderPlan(uuid, symbol, side, quantity,
                                         TheValue(price)),
                           status |-> "pending_execution",
                           estimated_completion |-> "2024-01-01T10:30:00Z"],
                          "response", uuid + 1), uuid + 2, queue)

RealTimeRiskLogic(self, message, uuid, queue) ==
    LET risk_check ==
            [current_var |-> 180, exposure_check |-> "PASSED",
             margin_usage |-> 6500,
             alerts |-> << [type |-> "POSITION_SIZE", severity |-> "MEDIUM",
                            message |-> "Tech sector exposure approaching limit"] >>]
    IN  Returned(CreateResponse(self, message,
                     [risk_status |-> risk_check,
                      action_required |-> Len(risk_check.alerts) > 0,
                      next_check |-> "2024-01-01T10:05:00Z"],
                     "response", uuid), uuid + 1, queue)

(***************************************************************************)
(* TaskSchedulerAgent: the queue is sorted by the priority label, compared *)
(* as Python compares str values (by code point), largest first.           *)
(***************************************************************************)
PriorityLabel(p) ==
    CASE p = "high"   -> <<104, 105, 103, 104>>
      [] p = "medium" -> <<109, 101, 100, 105, 117, 109>>
      [] p = "low"    -> <<108, 111, 119>>

RECURSIVE StrLess(_, _)
StrLess(a, b) ==
    IF b = <<>> THEN FALSE
    ELSE IF a = <<>> THEN TRUE
    ELSE IF Head(a) # Head(b) THEN Head(a) < Head(b)
    ELSE StrLess(Tail(a), Tail(b))

\* Mutant: an unstable sort, which puts a new task ahead of the queued tasks
\* of its own priority.
InsertDescending_AheadOfEquals(sorted, t) ==
    LET notAbove == {i \in 1..Len(sorted) :
                        ~StrLess(PriorityLabel(t.priority),
                                 PriorityLabel(sorted[i].priority))}
    IN  IF notAbove = {} THEN Append(sorted, t)
        ELSE LET i == CHOOSE m \in notAbove : \A n \in notAbove : m <= n
             IN  SubSeq(sorted, 1, i - 1) \o <<t>> \o SubSeq(sorted, i, Len(sorted))

\* list.sort is stable, and with reverse=True equal keys keep their order.
RECURSIVE InsertDescending(_, _)
InsertDescending(sorted, t) ==
    IF sorted = <<>> THEN <<t>>
    ELSE IF StrLess(PriorityLabel(Head(sorted).priority), PriorityLabel(t.priority))
         THEN <<t>> \o sorted
         ELSE <<Head(sorted)>> \o InsertDescending(Tail(sorted), t)

RECURSIVE SortByPriorityReverse(_)
SortByPriorityReverse(queue) ==
    IF queue = <<>> THEN <<>>
    ELSE InsertDescending(SortByPriorityReverse(SubSeq(queue, 1, Len(queue) - 1)),
                          queue[Len(queue)])

Task(task_id, task_type, priority, payload) ==
    [task_id |-> task_id, task_type |-> task_type, priority |-> priority,
     status |-> "queued", payload |-> payload]

\* Mutant: queue_position is the new task's place in the sorted queue.
TaskSchedulerLogic_ReportsIndex(self, message, uuid, queue) ==
    IF message.message_type = "command"
    THEN LET task_data == Get(message.payload, "task", EmptyDict)
             task == Task(uuid, Get(task_data, "type", "default"),
                          message.priority, task_data)
             sorted == SortByPriorityReverse(Append(queue, task))
         IN  Returned(CreateResponse(self, message,
                          [task_id |-> task.task_id,
                           queue_position |->
                               CHOOSE i \in 1..Len(sorted) : sorted[i] = task,
                           estimated_start |-> "2024-01-01T10:01:00Z"],
                          "response", uuid + 1), uuid + 2, sorted)
    ELSE Returned(CreateResponse(self, message,
                      [status |-> "scheduler_active", queue_size |-> Len(queue)],
                      "response", uuid), uuid + 1, queue)

TaskSchedulerLogic(self, message, uuid, queue) ==
    IF message.message_type = "command"
    THEN LET task_data == Get(message.payload, "task", EmptyDict)
             task == Task(uuid, Get(task_data, "type", "default"),
                          message.priority, task_data)
             sorted == SortByPriorityReverse(Append(queue, task))
         IN  Returned(CreateResponse(self, message,
                          [task_id |-> task.task_id,
                           queue_position |-> Len(sorted),
                           estimated_start |-> "2024-01-01T10:01:00Z"],
                          "response", uuid + 1), uuid + 2, sorted)
    ELSE Returned(CreateResponse(self, message,
                      [status |-> "scheduler_active", queue_size |-> Len(queue)],
                      "response", uuid), uuid + 1, queue)

(***************************************************************************)
(* What the environment decides about one handler run: whether the handler *)
(* raises (fault holds the exception text, base its class) and, for the    *)
(* tactical agent, the signal it produces.                                 *)
(***************************************************************************)
NoFault(signal) == [fault |-> None, base |-> FALSE, signal |-> signal]

Fault(text) == [fault |-> Some(text), base |-> FALSE, signal |-> SourceSignal]

BaseFault(text) == [Fault(text) EXCEPT !.base = TRUE]

Faults ==
    {Fault(t) : t \in FaultTexts} \cup {BaseFault(t) : t \in BaseExceptionTexts}

HandlerRuns(key) ==
    Faults \cup
    (IF key = "strategy_research"
     THEN {NoFault(s) : s \in SignalChoices}
     ELSE {NoFault(SourceSignal)})

\* await self._process_logic(message), dispatched on the agent's class
ProcessLogic(key, self, message, run, uuid, queue) ==
    IF run.fault # None
    THEN IF run.base THEN RaisedBase(TheValue(run.fault), uuid, queue)
         ELSE Raised(TheValue(run.fault), uuid, queue)
    ELSE CASE key = "portfolio_manager" -> PortfolioManagerLogic(self, message, uuid, queue)
           [] key = "risk_manager"      -> RiskManagerLogic(self, message, uuid, queue)
           [] key = "strategy_research" -> StrategyResearchLogic(self, message, run.signal, uuid, queue)
           [] key = "order_execution"   -> OrderExecutionLogic(self, message, uuid, queue)
           [] key = "realtime_risk"     -> RealTimeRiskLogic(self, message, uuid, queue)
           [] key = "task_scheduler"    -> TaskSchedulerLogic(self, message, uuid, queue)

(***************************************************************************)
(* TradingAgent.process_message, in its two halves: up to the await of the *)
(* handler, and from the handler's outcome to the return.                  *)
(***************************************************************************)
MemoryEntry(message) == [received |-> message]

\* Mutant: the memory keeps the latest message only.
RecordToMemory_Overwrites(mem, message) ==
    [id \in {message.message_id} |-> MemoryEntry(message)]

RecordToMemory(mem, message) ==
    [id \in DOMAIN mem \cup {message.message_id} |->
        IF id = message.message_id THEN MemoryEntry(message) ELSE mem[id]]

\* What a call of send_message / process_message gives its caller: the
\* message it returns, or the exception it raises (base as for a handler).
ReturnMessage(m) ==
    [raised |-> FALSE, base |-> FALSE, error |-> "", message |-> Some(m)]

RaiseError(text) ==
    [raised |-> TRUE, base |-> FALSE, error |-> text, message |-> None]

RaiseBase(text) == [RaiseError(text) EXCEPT !.base = TRUE]

\* Mutant: process_message without its except clause.
ProcessMessageEnd_Propagates(self, status, message, h) ==
    IF h.raised
    THEN [outcome |-> [raised |-> TRUE, base |-> h.base, error |-> h.error,
                       message |-> None],
          state |-> status, uuid |-> h.uuid, queue |-> h.queue]
    ELSE [outcome |-> [raised |-> FALSE, base |-> FALSE, error |-> "",
                       message |-> h.response],
          state |-> "idle", uuid |-> h.uuid, queue |-> h.queue]

\* Mutant: the status is reset to idle on every exit, as in a finally clause.
ProcessMessageEnd_AlwaysIdle(self, status, message, h) ==
    IF h.raised /\ h.base
    THEN [outcome |-> RaiseBase(h.error), state |-> "idle", uuid |-> h.uuid,
          queue |-> h.queue]
    ELSE IF h.raised
    THEN [outcome |-> ReturnMessage(CreateErrorResponse(self, message, h.error, h.uuid)),
          state |-> "idle", uuid |-> h.uuid + 1, queue |-> h.queue]
    ELSE [outcome |-> ReturnMessage(TheValue(h.response)),
          state |-> "idle", uuid |-> h.uuid, queue |-> h.queue]

\* From the handler's outcome h to the exit of process_message:
\* [outcome, state, uuid, queue].  `status` is self.state.status when the
\* handler ends.  The clause is `except Exception` (line 226): an Exception
\* becomes the alert and the status "error"; a BaseException that is not an
\* Exception is not caught, so the call raises it, the status is not
\* assigned and no identifier is drawn.
ProcessMessageEnd(self, status, message, h) ==
    IF h.raised /\ h.base
    THEN [outcome |-> RaiseBase(h.error), state |-> status, uuid |-> h.uuid,
          queue |-> h.queue]
    ELSE IF h.raised
    THEN [outcome |-> ReturnMessage(CreateErrorResponse(self, message, h.error, h.uuid)),
          state |-> "error", uuid |-> h.uuid + 1, queue |-> h.queue]
    ELSE [outcome |-> ReturnMessage(TheValue(h.response)),
          state |-> "idle", uuid |-> h.uuid, queue |-> h.queue]

(***************************************************************************)
(* TradingMultiAgentSystem.send_message                                    *)
(***************************************************************************)
\* Mutant: a lookup that also accepts an agent's display name.
LookupAgent_ByDisplayName(ags, name) ==
    IF name \in DOMAIN ags THEN {name}
    ELSE {k \in DOMAIN ags : ags[k].name = name}

\* self.agents.get(name): the agent under exactly this key, or None
LookupAgent(ags, name) == IF name \in DOMAIN ags THEN Some(name) ELSE None

\* Mutant: the alert is built as _create_response builds a response.
AgentNotFound_AsResponse(message, id) ==
    TradingMessage(id, "coordination", "system",
                   message.source_layer, message.source_agent,
                   "alert", message.priority, [error |-> "Agent not found"],
                   [response_to |-> message.message_id])

AgentNotFound(message, id) ==
    TradingMessage(id, "coordination", "system",
                   message.target_layer, message.target_agent,
                   "alert", "high", [error |-> "Agent not found"],
                   [original_message_id |-> message.message_id])

(***************************************************************************)
(* The workflow driver's data                                              *)
(***************************************************************************)
TradingWorkflowResult ==
    [portfolio_allocation |-> None, risk_assessment |-> None,
     strategy_recommendation |-> None, execution_plan |-> None,
     risk_monitoring |-> None, success |-> TRUE, errors |-> <<>>]

Stages == 1..5

\* result.<field> = <response>.payload
RecordStage(res, k, payload) ==
    CASE k = 1 -> [res EXCEPT !.portfolio_allocation = Some(payload)]
      [] k = 2 -> [res EXCEPT !.risk_assessment = Some(payload)]
      [] k = 3 -> [res EXCEPT !.strategy_recommendation = Some(payload)]
      [] k = 4 -> [res EXCEPT !.execution_plan = Some(payload)]
      [] k = 5 -> [res EXCEPT !.risk_monitoring = Some(payload)]

\* The payloads of the five requests.  The driver's locals
\* portfolio_response.payload, risk_response.payload and
\* strategy_response.payload are the objects it stored in the aggregate, read
\* here from res.
RiskRequestPayload(res) == [portfolio |-> TheValue(res.portfolio_allocation)]

StrategyRequestPayload(md, res) ==
    [market_data |-> md,
     risk_limits |-> Get(TheValue(res.risk_assessment), "risk_metrics", EmptyDict)]

\* Mutant: the order is always priced at the default.
SynthesizedOrder_DefaultPrice(signals) ==
    [symbol |-> "AAPL", side |-> "BUY", quantity |-> 100, price |-> Some(100)]

\* The order of stage 4: signals.get("entry_price", 100.0) is the value under
\* the key when the key is there, None included; the default is taken only
\* when the key is absent.  The price of an order dict is therefore an
\* Optional value: {p} for a number p, {} for None.
SynthesizedOrder(signals) ==
    [symbol |-> "AAPL", side |-> "BUY", quantity |-> 100,
     price |-> Get(signals, "entry_price", Some(100))]

\* Mutant: the monitoring agent is given the latest response, not the first.
MonitorRequestPayload_Latest(res) ==
    [portfolio |-> TheValue(res.strategy_recommendation)]

MonitorRequestPayload(res) == [portfolio |-> TheValue(res.portfolio_allocation)]

StagePayload(k, md, res) ==
    CASE k = 1 -> [market_data |-> md]
      [] k = 2 -> RiskRequestPayload(res)
      [] k = 3 -> StrategyRequestPayload(md, res)
      [] k = 4 -> [order |-> SynthesizedOrder(
                       Get(TheValue(res.strategy_recommendation),
                           "signals", EmptyDict))]
      [] k = 5 -> MonitorRequestPayload(res)

StageMessage(k, md, res, id) ==
    CASE k = 1 -> TradingMessage(id, "coordination", "system", "strategic",
                      "portfolio_manager", "query", "high",
                      StagePayload(k, md, res),
                      [workflow_step |-> "strategic_decision"])
      [] k = 2 -> TradingMessage(id, "coordination", "system", "strategic",
                      "risk_manager", "query", "high",
                      StagePayload(k, md, res),
                      [workflow_step |-> "risk_assessment"])
      [] k = 3 -> TradingMessage(id, "coordination", "system", "tactical",
                      "strategy_research", "query", "medium",
                      StagePayload(k, md, res),
                      [workflow_step |-> "strategy_generation"])
      [] k = 4 -> TradingMessage(id, "coordination", "system", "execution",
                      "order_execution", "command", "medium",
                      StagePayload(k, md, res),
                      [workflow_step |-> "order_execution"])
      [] k = 5 -> TradingMessage(id, "coordination", "system", "monitoring",
                      "realtime_risk", "query", "medium",
                      StagePayload(k, md, res),
                      [workflow_step |-> "risk_monitoring"])

\* Mutant: every signal but HOLD is executed.
IsBuy_NotHold(payload) ==
    LET signals == Get(payload, "signals", EmptyDict)
    IN  "signal" \in DOMAIN signals /\ signals.signal # "HOLD"

\* signals.get("signal") == "BUY" on the stage-3 payload
IsBuy(payload) ==
    LET signals == Get(payload, "signals", EmptyDict)
    IN  "signal" \in DOMAIN signals /\ signals.signal = "BUY"

\* Mutant: monitoring is requested before execution.
NextStage_MonitorFirst(k, payload) ==
    CASE k = 3 -> 5
      [] k = 5 -> 4
      [] k = 4 -> 6
      [] OTHER -> k + 1

\* The stage that follows stage k once its response payload is recorded;
\* 6 stands for the end of the try block.
NextStage(k, payload) ==
    IF k = 3 THEN (IF IsBuy(payload) THEN 4 ELSE 5) ELSE k + 1

\* Mutant: the error is recorded but the success flag is left alone.
WorkflowExcept_KeepsSuccess(res, text) ==
    [res EXCEPT !.errors = Append(@, text)]

\* Mutant: the failure discards the stage results recorded so far.
WorkflowExcept_Rollback(res, text) ==
    [portfolio_allocation |-> None, risk_assessment |-> None,
     strategy_recommendation |-> None, execution_plan |-> None,
     risk_monitoring |-> None, success |-> FALSE,
     errors |-> Append(res.errors, text)]

\* except Exception as e: result.success = False; result.errors.append(str(e))
WorkflowExcept(res, text) ==
    [res EXCEPT !.success = FALSE, !.errors = Append(@, text)]

\* The driver from the outcome of `await self.send_message(...)` of stage k
\* up to its next send or its exit: [result, stage, pc].  The driver's clause
\* is `except Exception` too (line 731): a BaseException that is not an
\* Exception leaves execute_trading_workflow as it came ("raised"), and the
\* aggregate, a local, is not returned.
AfterSend(res, k, outcome) ==
    IF outcome.raised /\ outcome.base
    THEN [result |-> res, stage |-> k, pc |-> "raised"]
    ELSE IF outcome.raised
    THEN [result |-> WorkflowExcept(res, outcome.error), stage |-> k,
          pc |-> "returned"]
    ELSE LET payload == TheValue(outcome.message).payload
             n == NextStage(k, payload)
         IN  [result |-> RecordStage(res, k, payload), stage |-> n,
              pc |-> IF n \in Stages THEN "sending" ELSE "returned"]

(***************************************************************************)
(* Inputs                                                                  *)
(***************************************************************************)
\* The senders a client names: the tests' "test_system", a registered key,
\* and a sender that addresses itself though it is not registered.
ClientSources ==
    { [layer |-> "coordination", agent |-> "test_system"],
      [layer |-> "strategic", agent |-> "portfolio_manager"],
      [layer |-> "strategic", agent |-> "unknown_agent"] }

\* The six registry keys, a display name and a name of no agent at all.
ClientTargets == AgentKeys \cup {"PortfolioManager", "unknown_agent"}

ClientTargetLayer(target) ==
    IF target \in DOMAIN InitializeAgents
    THEN InitializeAgents[target].layer ELSE "strategic"

ClientTypes == {"command", "query"}

ClientPayloads(target) ==
    CASE target = "order_execution" ->
            { EmptyDict,
              [order |-> [symbol |-> "AAPL", side |-> "BUY", quantity |-> 100,
                          price |-> Some(0)]],
              [order |-> [side |-> "SELL", price |-> Some(105)]] }
      [] target = "task_scheduler" ->
            { EmptyDict, [task |-> [type |-> "rebalance"]] }
      [] target = "strategy_research" ->
            { EmptyDict, [strategy_type |-> "mean_reversion"] }
      [] OTHER -> { EmptyDict }

MarketSnapshots ==
    { [sp500 |-> 4500, vix |-> 18], [sp500 |-> 4300, vix |-> 31] }

(***************************************************************************)
(* State after TradingMultiAgentSystem.__init__                            *)
(***************************************************************************)
InitSystem ==
    /\ agents = InitializeAgents
    /\ agent_registry = InitializeRegistry(InitializeAgents)
    /\ agent_state = [k \in AgentKeys |-> "idle"]
    /\ memory = [k \in AgentKeys |-> EmptyDict]
    /\ task_queue = <<>>
    /\ next_uuid = 1
    /\ inflight = [c \in Callers |-> None]
    /\ completed = [c \in Callers |-> None]
    /\ calls = 0
    /\ wf_pc = "ready"
    /\ wf_stage = 1
    /\ market_data = None
    /\ result = None
    /\ wf_sent = <<>>
    /\ wf_log = [k \in Stages |-> "unsent"]
    /\ wf_runs = 0
    /\ status_report = None

\* No value object is under construction and no tool wrapper has been called.
Init ==
    /\ InitSystem
    /\ allocation = None
    /\ wire = None
    /\ tool = None

(***************************************************************************)
(* send_message as seen by its caller c.  A call to a registered agent is  *)
(* Deliver (process_message up to `await self._process_logic`) followed by *)
(* a later step that takes the handler's outcome; the other calls finish   *)
(* at once.                                                                *)
(***************************************************************************)
\* handler_error holds the text of what the handler raised, handler_base
\* tells that it was a BaseException that is not an Exception.
FinishedCall(message, found, ran, handler_error, outcome) ==
    [request |-> message, agent |-> found, handler_ran |-> ran,
     handler_error |-> handler_error, handler_base |-> FALSE,
     outcome |-> outcome]

\* Mutant: memory is one dict shared by all agents (a class attribute).
Deliver_SharedMemory(c, key, message) ==
    /\ agent_state' = [agent_state EXCEPT ![key] = "processing"]
    /\ memory' = [k \in DOMAIN memory |-> RecordToMemory(memory[k], message)]
    /\ inflight' = [inflight EXCEPT ![c] = Some([key |-> key, message |-> message])]
    /\ completed' = [completed EXCEPT ![c] = None]
    /\ next_uuid' = next_uuid + 1

Deliver(c, key, message) ==
    /\ agent_state' = [agent_state EXCEPT ![key] = "processing"]
    /\ memory' = [memory EXCEPT ![key] = RecordToMemory(@, message)]
    /\ inflight' = [inflight EXCEPT ![c] = Some([key |-> key, message |-> message])]
    /\ completed' = [completed EXCEPT ![c] = None]
    /\ next_uuid' = next_uuid + 1

\* Mutant: the agent keeps the message it is processing in an attribute that
\* the next call overwrites, and answers the message found there.
HandlerDone_LatestMessage(c, run) ==
    LET call == TheValue(inflight[c])
        self == agents[call.key]
        mem  == memory[call.key]
        last == mem[CHOOSE id \in DOMAIN mem : \A other \in DOMAIN mem : other <= id].received
        h    == ProcessLogic(call.key, self, last, run, next_uuid, task_queue)
        e    == ProcessMessageEnd(self, agent_state[call.key], last, h)
    IN  [outcome |-> e.outcome, state |-> e.state, uuid |-> e.uuid,
         queue |-> e.queue,
         handler_error |-> IF h.raised THEN Some(h.error) ELSE None,
         handler_base |-> h.raised /\ h.base]

\* The return of process_message for the call c has in flight, the handler
\* run being `run`: [outcome, state, uuid, queue, handler_error, handler_base]
HandlerDone(c, run) ==
    LET call == TheValue(inflight[c])
        self == agents[call.key]
        h    == ProcessLogic(call.key, self, call.message, run, next_uuid, task_queue)
        e    == ProcessMessageEnd(self, agent_state[call.key], call.message, h)
    IN  [outcome |-> e.outcome, state |-> e.state, uuid |-> e.uuid,
         queue |-> e.queue,
         handler_error |-> IF h.raised THEN Some(h.error) ELSE None,
         handler_base |-> h.raised /\ h.base]

Complete(c, d) ==
    LET call == TheValue(inflight[c])
    IN  /\ agent_state' = [agent_state EXCEPT ![call.key] = d.state]
        /\ task_queue' = d.queue
        /\ next_uuid' = d.uuid
        /\ inflight' = [inflight EXCEPT ![c] = None]
        /\ completed' = [completed EXCEPT ![c] =
               Some([FinishedCall(call.message, Some(call.key), TRUE,
                                  d.handler_error, d.outcome)
                        EXCEPT !.handler_base = d.handler_base])]

(***************************************************************************)
(* A client calling send_message directly                                  *)
(***************************************************************************)
ClientSend(src, target, mt, pr, pl) ==
    /\ calls < MaxCalls
    /\ inflight["client"] = None
    /\ calls' = calls + 1
    /\ LET message == TradingMessage(next_uuid, src.layer, src.agent,
                          ClientTargetLayer(target), target, mt, pr, pl, EmptyDict)
           found == LookupAgent(agents, message.target_agent)
       IN  IF found = None
           THEN /\ completed' = [completed EXCEPT !["client"] =
                       Some(FinishedCall(message, None, FALSE, None,
                            ReturnMessage(AgentNotFound(message, next_uuid + 1))))]
                /\ next_uuid' = next_uuid + 2
                /\ UNCHANGED <<agent_state, memory, inflight>>
           ELSE Deliver("client", TheValue(found), message)
    /\ UNCHANGED <<status_report, object_vars>>
    /\ UNCHANGED <<agents, agent_registry, task_queue, wf_pc, wf_stage,
                   market_data, result, wf_sent, wf_log, wf_runs>>

ClientReceive(run) ==
    /\ inflight["client"] # None
    /\ run \in HandlerRuns(TheValue(inflight["client"]).key)
    /\ Complete("client", HandlerDone("client", run))
    /\ UNCHANGED <<status_report, object_vars>>
    /\ UNCHANGED <<agents, agent_registry, memory, calls, wf_pc, wf_stage,
                   market_data, result, wf_sent, wf_log, wf_runs>>

(***************************************************************************)
(* execute_trading_workflow                                                *)
(***************************************************************************)
\* Mutant: the instances share the list given as the default of `errors`.
NewAggregate_SharedErrors(previous) ==
    IF previous = None THEN TradingWorkflowResult
    ELSE [TradingWorkflowResult EXCEPT !.errors = TheValue(previous).errors]

\* result = TradingWorkflowResult(): every instance gets its own copy of the
\* field defaults, whatever the aggregate of the previous invocation holds.
NewAggregate(previous) == TradingWorkflowResult

\* The invocation up to its first request.
BeginRun(md) ==
    /\ result' = Some(NewAggregate(result))
    /\ market_data' = Some(md)
    /\ wf_stage' = 1
    /\ wf_pc' = "sending"
    /\ wf_sent' = <<>>
    /\ wf_log' = [k \in Stages |-> "unsent"]
    /\ wf_runs' = wf_runs + 1
    /\ UNCHANGED <<status_report, object_vars>>
    /\ UNCHANGED <<agents, agent_registry, agent_state, memory, task_queue,
                   next_uuid, inflight, completed, calls>>

WorkflowStart(md) ==
    /\ wf_pc = "ready"
    /\ BeginRun(md)

\* A further invocation, made once the previous one has returned.
WorkflowStartAgain(md) ==
    /\ wf_pc \in {"returned", "raised"}
    /\ wf_runs < MaxRuns
    /\ BeginRun(md)

\* The driver has the outcome of its send of stage k.
Resume(k, outcome) ==
    LET a == AfterSend(TheValue(result), k, outcome)
    IN  /\ result' = Some(a.result)
        /\ wf_stage' = a.stage
        /\ wf_pc' = a.pc

\* The driver builds the request of the stage it is at and calls
\* send_message.  `escape` holds the exception text when the call raises.
WorkflowSend(escape) ==
    /\ wf_pc = "sending"
    /\ LET message == StageMessage(wf_stage, TheValue(market_data),
                                   TheValue(result), next_uuid)
           found == LookupAgent(agents, message.target_agent)
       IN  /\ wf_sent' = Append(wf_sent, message)
           /\ IF escape # None
              THEN /\ Resume(wf_stage, RaiseError(TheValue(escape)))
                   /\ wf_log' = [wf_log EXCEPT ![wf_stage] = "escaped"]
                   /\ completed' = [completed EXCEPT !["wf"] =
                          Some(FinishedCall(message, None, FALSE, None,
                                            RaiseError(TheValue(escape))))]
                   /\ next_uuid' = next_uuid + 1
                   /\ UNCHANGED <<agent_state, memory, inflight>>
              ELSE IF found = None
              THEN /\ Resume(wf_stage,
                          ReturnMessage(AgentNotFound(message, next_uuid + 1)))
                   /\ wf_log' = [wf_log EXCEPT ![wf_stage] = "not_found"]
                   /\ completed' = [completed EXCEPT !["wf"] =
                          Some(FinishedCall(message, None, FALSE, None,
                               ReturnMessage(AgentNotFound(message, next_uuid + 1))))]
                   /\ next_uuid' = next_uuid + 2
                   /\ UNCHANGED <<agent_state, memory, inflight>>
              ELSE /\ Deliver("wf", TheValue(found), message)
                   /\ wf_log' = [wf_log EXCEPT ![wf_stage] = "inflight"]
                   /\ wf_pc' = "awaiting"
                   /\ UNCHANGED <<result, wf_stage>>
    /\ UNCHANGED <<status_report, object_vars>>
    /\ UNCHANGED <<agents, agent_registry, task_queue, calls, market_data,
                   wf_runs>>

\* The awaited handler finishes; the driver records the payload and goes on.
WorkflowReceive(run) ==
    /\ wf_pc = "awaiting"
    /\ inflight["wf"] # None
    /\ run \in HandlerRuns(TheValue(inflight["wf"]).key)
    /\ LET d == HandlerDone("wf", run)
       IN  /\ Complete("wf", d)
           /\ Resume(wf_stage, d.outcome)
           /\ wf_log' = [wf_log EXCEPT ![wf_stage] =
                  IF d.outcome.raised THEN "propagated"
                  ELSE IF d.handler_error # None THEN "handler_failed"
                  ELSE "returned"]
    /\ UNCHANGED <<status_report, object_vars>>
    /\ UNCHANGED <<agents, agent_registry, memory, calls, market_data, wf_sent,
                   wf_runs>>

(***************************************************************************)
(* get_system_status                                                       *)
(***************************************************************************)
\* The report built from the two mappings; "uptime", the time of the call,
\* is left out.  Nothing is ever appended to message_bus.
\* Mutant: the report reads each agent's own status field.
SystemStatus_LiveStatus(ags, registry) ==
    [system_status |-> "ready",
     total_agents |-> Cardinality(DOMAIN ags),
     agent_states |-> [agent_id \in DOMAIN registry |->
                          [registry[agent_id] EXCEPT !.status = agent_state[agent_id]]],
     message_bus_length |-> 0]

SystemStatus(ags, registry) ==
    [system_status |-> "ready",
     total_agents |-> Cardinality(DOMAIN ags),
     agent_states |-> [agent_id \in DOMAIN registry |-> registry[agent_id]],
     message_bus_length |-> 0]

GetSystemStatus ==
    /\ status_report' = Some(SystemStatus(agents, agent_registry))
    /\ UNCHANGED <<agent_vars, workflow_vars, object_vars>>

(***************************************************************************)
(* Specifications                                                          *)
(***************************************************************************)
\* Clients sending single messages through the router.
Next ==
    \/ \E src \in ClientSources, target \in ClientTargets,
          mt \in ClientTypes, pr \in Priority :
          \E pl \in ClientPayloads(target) : ClientSend(src, target, mt, pr, pl)
    \/ \E run \in HandlerRuns("strategy_research") : ClientReceive(run)

Spec == Init /\ [][Next]_vars

\* One run of the workflow driver.
NextWorkflow ==
    \/ \E md \in MarketSnapshots : WorkflowStart(md)
    \/ \E escape \in {None} \cup {Some(t) : t \in EscapeTexts} : WorkflowSend(escape)
    \/ \E run \in HandlerRuns("strategy_research") : WorkflowReceive(run)

SpecWorkflow == Init /\ [][NextWorkflow]_vars

\* One run of the workflow driver over the system's own send_message (lines
\* 620-635): an unregistered target is answered by an alert and every
\* Exception of a handler is turned into one by process_message (line 226),
\* so no Exception reaches the driver from a send; only a BaseException that
\* is not an Exception propagates, and it leaves the driver too.
NextWorkflowAnswered ==
    \/ \E md \in MarketSnapshots : WorkflowStart(md)
    \/ WorkflowSend(None)
    \/ \E run \in HandlerRuns("strategy_research") : WorkflowReceive(run)

SpecWorkflowAnswered == Init /\ [][NextWorkflowAnswered]_vars

(***************************************************************************)
(* Concurrent callers: asyncio.gather over send_message calls, as in       *)
(* test_async_operations.  Each coroutine issues one call; the calls       *)
(* interleave at the await of the handler.                                 *)
(***************************************************************************)
GatherIndex(c) == CHOOSE i \in DOMAIN CallerNames : CallerNames[i] = c

GatherTargets == {"realtime_risk", "task_scheduler"}

\* The test queries the monitoring agent; the scheduler is sent commands.
GatherType(target) == IF target = "task_scheduler" THEN "command" ELSE "query"

GatherPayload(c, target) ==
    IF target = "task_scheduler"
    THEN [task |-> [type |-> "rebalance"]]
    ELSE [test_id |-> GatherIndex(c) - 1]

GatherSend(c, target) ==
    /\ inflight[c] = None
    /\ completed[c] = None
    /\ LET message == TradingMessage(next_uuid, "coordination", "test_system",
                          ClientTargetLayer(target), target, GatherType(target),
                          "medium", GatherPayload(c, target), EmptyDict)
           found == LookupAgent(agents, message.target_agent)
       IN  IF found = None
           THEN /\ completed' = [completed EXCEPT ![c] =
                       Some(FinishedCall(message, None, FALSE, None,
                            ReturnMessage(AgentNotFound(message, next_uuid + 1))))]
                /\ next_uuid' = next_uuid + 2
                /\ UNCHANGED <<agent_state, memory, inflight>>
           ELSE Deliver(c, TheValue(found), message)
    /\ UNCHANGED <<status_report, object_vars, workflow_vars>>
    /\ UNCHANGED <<agents, agent_registry, task_queue, calls>>

GatherReceive(c, run) ==
    /\ inflight[c] # None
    /\ run \in HandlerRuns(TheValue(inflight[c]).key)
    /\ Complete(c, HandlerDone(c, run))
    /\ UNCHANGED <<status_report, object_vars, workflow_vars>>
    /\ UNCHANGED <<agents, agent_registry, memory, calls>>

NextConcurrent ==
    \/ \E c \in GatherCallers, target \in GatherTargets : GatherSend(c, target)
    \/ \E c \in GatherCallers, run \in HandlerRuns("realtime_risk") :
          GatherReceive(c, run)

SpecConcurrent == Init /\ [][NextConcurrent]_vars

\* asyncio.gather over send_message calls that all name the same agent: the
\* test's queries to the monitoring agent.
NextSameAgent ==
    \/ \E c \in SameAgentCallers : GatherSend(c, "realtime_risk")
    \/ \E c \in SameAgentCallers, run \in HandlerRuns("realtime_risk") :
          GatherReceive(c, run)

\* Nothing but the handler stands between a call's entry and its return, and
\* no handler awaits another call, so the event loop resumes every call that
\* is in flight: the return of each call is weakly fair.  The fairness
\* condition is written out by its definition, GatherReceive(c, run) being
\* enabled exactly when c's call is in flight.
SpecSameAgent ==
    /\ Init /\ [][NextSameAgent]_vars
    /\ \A c \in SameAgentCallers :
          \/ []<>(inflight[c] = None)
          \/ []<><<\E run \in HandlerRuns("realtime_risk") : GatherReceive(c, run)>>_vars

\* The three public operations of the system in any order: a client's
\* send_message calls, one run of the workflow and status reports.
SystemTargets == {"realtime_risk", "unknown_agent"}

NextSystem ==
    \/ \E target \in SystemTargets :
          ClientSend([layer |-> "coordination", agent |-> "test_system"],
                     target, "query", "medium", EmptyDict)
    \/ \E run \in HandlerRuns("realtime_risk") : ClientReceive(run)
    \/ WorkflowStart([sp500 |-> 4500, vix |-> 18])
    \/ WorkflowSend(None)
    \/ \E run \in {NoFault(SourceSignal)} \cup {Fault(t) : t \in FaultTexts} :
          WorkflowReceive(run)
    \/ GetSystemStatus

SpecSystem == Init /\ [][NextSystem]_vars

(***************************************************************************)
(* A client sending messages to the task scheduler, each call awaited      *)
(* before the next is made.                                                *)
(***************************************************************************)
SchedulerTypes == {"command", "query"}

SchedulerSend(mt, pr) ==
    /\ calls < MaxCommands
    /\ inflight["client"] = None
    /\ calls' = calls + 1
    /\ LET message == TradingMessage(next_uuid, "coordination", "test_system",
                          "coordination", "task_scheduler", mt, pr,
                          [task |-> [type |-> "rebalance"]], EmptyDict)
           found == LookupAgent(agents, message.target_agent)
       IN  IF found = None
           THEN /\ completed' = [completed EXCEPT !["client"] =
                       Some(FinishedCall(message, None, FALSE, None,
                            ReturnMessage(AgentNotFound(message, next_uuid + 1))))]
                /\ next_uuid' = next_uuid + 2
                /\ UNCHANGED <<agent_state, memory, inflight>>
           ELSE Deliver("client", TheValue(found), message)
    /\ UNCHANGED <<status_report, object_vars, workflow_vars>>
    /\ UNCHANGED <<agents, agent_registry, task_queue>>

NextScheduler ==
    \/ \E mt \in SchedulerTypes, pr \in Priority : SchedulerSend(mt, pr)
    \/ \E run \in HandlerRuns("task_scheduler") : ClientReceive(run)

SpecScheduler == Init /\ [][NextScheduler]_vars

(***************************************************************************)
(* Successive runs of the workflow driver on one market snapshot.          *)
(***************************************************************************)
RunSnapshot == [sp500 |-> 4500, vix |-> 18]

NextRuns ==
    \/ WorkflowStart(RunSnapshot)
    \/ WorkflowStartAgain(RunSnapshot)
    \/ \E escape \in {None} \cup {Some(t) : t \in EscapeTexts} : WorkflowSend(escape)
    \/ \E run \in {NoFault(SourceSignal)} \cup Faults :
          WorkflowReceive(run)

SpecRuns == Init /\ [][NextRuns]_vars

(***************************************************************************)
(* A client that answers the response it got: it sends one more message,   *)
(* addressed to the response's source layer and agent.                     *)
(***************************************************************************)
ClientReply ==
    /\ calls < MaxCalls + 1
    /\ inflight["client"] = None
    /\ \E f \in completed["client"] :
          /\ f.handler_ran
          /\ ~f.outcome.raised
          /\ calls' = calls + 1
          /\ LET response == TheValue(f.outcome.message)
                 message == TradingMessage(next_uuid, f.request.source_layer,
                                f.request.source_agent, response.source_layer,
                                response.source_agent, "query", "medium",
                                EmptyDict, EmptyDict)
                 found == LookupAgent(agents, message.target_agent)
             IN  IF found = None
                 THEN /\ completed' = [completed EXCEPT !["client"] =
                             Some(FinishedCall(message, None, FALSE, None,
                                  ReturnMessage(AgentNotFound(message, next_uuid + 1))))]
                      /\ next_uuid' = next_uuid + 2
                      /\ UNCHANGED <<agent_state, memory, inflight>>
                 ELSE Deliver("client", TheValue(found), message)
    /\ UNCHANGED <<status_report, object_vars, workflow_vars>>
    /\ UNCHANGED <<agents, agent_registry, task_queue>>

NextReply ==
    \/ Next
    \/ ClientReply

SpecReply == Init /\ [][NextReply]_vars

(***************************************************************************)
(* Claims about the agent wrapper and the router (specification Spec)      *)
(***************************************************************************)
\* The finished calls in which process_message ran.
HandledCalls ==
    {f \in UNION {completed[c] : c \in Callers} : f.handler_ran}

\* C1 as stated: process_message never propagates an exception raised by the
\* handler: whenever the handler of a call failed, the call returned a message
\* of kind alert whose payload holds the error text under "error" and status
\* "failed".
C1_HandlerFailureBecomesAlert ==
    \A f \in HandledCalls :
        f.handler_error # None =>
            /\ ~f.outcome.raised
            /\ f.outcome.message # None
            /\ LET m == TheValue(f.outcome.message)
               IN  /\ m.message_type = "alert"
                   /\ DOMAIN m.payload = {"error", "status"}
                   /\ m.payload.error = TheValue(f.handler_error)
                   /\ m.payload.status = "failed"

\* C1 as amended: process_message never propagates an Exception raised by the
\* handler: whenever the handler of a call raised an Exception, the call
\* returned a message of kind alert whose payload holds the error text under
\* "error" and status "failed"; a BaseException that is not an Exception is
\* propagated by process_message, which then returns no message.
C1_ExceptionBecomesAlert ==
    \A f \in HandledCalls :
        f.handler_error # None =>
            IF f.handler_base
            THEN /\ f.outcome.raised
                 /\ f.outcome.base
                 /\ f.outcome.error = TheValue(f.handler_error)
                 /\ f.outcome.message = None
            ELSE /\ ~f.outcome.raised
                 /\ f.outcome.message # None
                 /\ LET m == TheValue(f.outcome.message)
                    IN  /\ m.message_type = "alert"
                        /\ DOMAIN m.payload = {"error", "status"}
                        /\ m.payload.error = TheValue(f.handler_error)
                        /\ m.payload.status = "failed"

\* A call to the execution agent whose handler raised OrderPlan's validation
\* error has returned.
C1_Witness ==
    \E f \in completed["client"] :
        /\ f.agent = Some("order_execution")
        /\ f.handler_error = Some("validation error for OrderPlan")
        /\ ~f.outcome.raised

\* C2: every message process_message returns, response or error alert, is
\* addressed to the request's source layer and agent and comes from the
\* responding agent's own layer and name, for each of the six roles.
C2_ResponseAddressing ==
    \A f \in HandledCalls :
        /\ f.outcome.raised <=> f.handler_base
        /\ ~f.outcome.raised =>
           LET m == TheValue(f.outcome.message)
               self == agents[TheValue(f.agent)]
           IN  /\ m.target_layer = f.request.source_layer
               /\ m.target_agent = f.request.source_agent
               /\ m.source_layer = self.layer
               /\ m.source_agent = self.name

\* The scheduler has answered a request sent from the strategic layer.
C2_Witness ==
    \E f \in completed["client"] :
        /\ f.agent = Some("task_scheduler")
        /\ f.request.source_layer = "strategic"
        /\ ~f.outcome.raised
        /\ TheValue(f.outcome.message).target_agent = "portfolio_manager"
        /\ TheValue(f.outcome.message).source_agent = "TaskScheduler"

\* C3: every message process_message returns copies the request's priority and
\* its metadata is {"response_to": <the request's message identifier>}.
C3_PriorityAndBackReference ==
    \A f \in HandledCalls :
        /\ f.outcome.message = None <=> f.handler_base
        /\ ~f.outcome.raised =>
           LET m == TheValue(f.outcome.message)
           IN  /\ m.priority = f.request.priority
               /\ DOMAIN m.metadata = {"response_to"}
               /\ m.metadata.response_to = f.request.message_id
               /\ m.message_id # f.request.message_id

\* A low-priority request has been answered with an error alert.
C3_Witness ==
    \E f \in completed["client"] :
        /\ f.handler_ran
        /\ f.handler_error # None
        /\ f.request.priority = "low"
        /\ ~f.outcome.raised
        /\ TheValue(f.outcome.message).priority = "low"

\* C4: a message whose target_agent is no key of the registry gets, without an
\* exception, an alert whose payload carries "Agent not found"; no handler runs
\* for it and no agent's state, memory or queue changes.
C4_UnknownTargetAlert ==
    /\ [](\A c \in Callers : \A f \in completed[c] :
            f.request.target_agent \notin DOMAIN agents =>
                /\ ~f.outcome.raised
                /\ ~f.handler_ran
                /\ f.outcome.message # None
                /\ TheValue(f.outcome.message).message_type = "alert"
                /\ "error" \in DOMAIN TheValue(f.outcome.message).payload
                /\ TheValue(f.outcome.message).payload.error = "Agent not found")
    /\ [][\A c \in Callers :
            ( /\ completed'[c] # completed[c]
              /\ completed'[c] # None
              /\ TheValue(completed'[c]).request.target_agent \notin DOMAIN agents )
            => /\ agent_state' = agent_state
               /\ memory' = memory
               /\ task_queue' = task_queue
               /\ inflight' = inflight]_vars

\* A message addressed to a display name, which is no registry key, has been
\* answered.
C4_Witness ==
    \E f \in completed["client"] :
        /\ f.request.target_agent = "PortfolioManager"
        /\ ~f.outcome.raised
        /\ TheValue(f.outcome.message).payload = [error |-> "Agent not found"]

(***************************************************************************)
(* Claims about the workflow driver (specification SpecWorkflow)           *)
(***************************************************************************)
Aggregate == TheValue(result)

StageResult(k) ==
    CASE k = 1 -> Aggregate.portfolio_allocation
      [] k = 2 -> Aggregate.risk_assessment
      [] k = 3 -> Aggregate.strategy_recommendation
      [] k = 4 -> Aggregate.execution_plan
      [] k = 5 -> Aggregate.risk_monitoring

Answered == {"returned", "handler_failed", "not_found"}

\* The signal sub-field of the recorded stage-3 payload: {} when there is none.
TacticalSignal ==
    IF result = None \/ Aggregate.strategy_recommendation = None THEN None
    ELSE LET p == TheValue(Aggregate.strategy_recommendation)
         IN  IF "signals" \in DOMAIN p /\ "signal" \in DOMAIN p.signals
             THEN Some(p.signals.signal) ELSE None

\* The entry price of the recorded stage-3 signal: {} when there is no
\* signal or its entry_price is None.
TacticalEntryPrice ==
    IF TacticalSignal = None THEN None
    ELSE LET g == TheValue(Aggregate.strategy_recommendation).signals
         IN  IF "entry_price" \in DOMAIN g THEN g.entry_price ELSE None

FailedPayload(p) ==
    /\ DOMAIN p = {"error", "status"}
    /\ p.status = "failed"

\* C5 as stated: if the portfolio manager's handler raises, the aggregate has
\* success = false, its error list holds the exception text and no later
\* stage field is populated.
C5_HandlerRaiseAbortsWorkflow ==
    (wf_pc = "returned" /\ wf_log[1] = "handler_failed") =>
        /\ ~Aggregate.success
        /\ \E i \in DOMAIN Aggregate.errors : Aggregate.errors[i] \in FaultTexts
        /\ \A k \in 2..5 : StageResult(k) = None

\* C5 as amended: if the stage-1 send raises an Exception (it escapes the
\* stage), the aggregate has success = false, its error list holds the
\* exception text and no stage field is populated; an Exception raised by the
\* portfolio manager's handler does not escape: its failed-alert payload is
\* recorded as the stage-1 result and the driver goes on to stage 2; a
\* BaseException that is not an Exception raised by the handler leaves the
\* driver uncaught: no aggregate is returned and no later request is sent.
C5_StageOneEscapeAbortsWorkflow ==
    /\ wf_pc = "returned" =>
        /\ wf_log[1] = "escaped" =>
              /\ ~Aggregate.success
              /\ Aggregate.errors = <<TheValue(completed["wf"]).outcome.error>>
              /\ Aggregate.errors[1] \in EscapeTexts
              /\ \A k \in Stages : StageResult(k) = None
        /\ wf_log[1] = "handler_failed" =>
              /\ StageResult(1) # None
              /\ FailedPayload(TheValue(StageResult(1)))
              /\ TheValue(StageResult(1)).error \in FaultTexts
              /\ wf_log[2] # "unsent"
    /\ wf_log[1] = "propagated" =>
        /\ wf_pc = "raised"
        /\ TheValue(completed["wf"]).handler_base
        /\ \A k \in 2..5 : wf_log[k] = "unsent"
        /\ \A k \in Stages : StageResult(k) = None

\* The run has returned after its stage-1 send raised.
C5_Witness ==
    /\ wf_pc = "returned"
    /\ wf_log[1] = "escaped"
    /\ ~Aggregate.success

\* The stages whose send raised to the driver: the send itself failed
\* ("escaped") or the agent's handler raised what process_message does not
\* catch ("propagated").
RaisedStages == {k \in Stages : wf_log[k] \in {"escaped", "propagated"}}

\* C6 as stated: when an exception escapes stage k, no request of a later
\* stage is sent, success becomes false, the exception text is appended to
\* the error list, the fields of the stages answered before k keep their
\* payloads, and the driver returns the aggregate instead of raising.
C6_AnyEscapeReturnsAggregate ==
    \A k \in RaisedStages :
        /\ wf_pc = "returned"
        /\ ~Aggregate.success
        /\ Aggregate.errors = <<TheValue(completed["wf"]).outcome.error>>
        /\ \A j \in Stages : j > k => wf_log[j] = "unsent"
        /\ \A j \in Stages :
              (j < k /\ wf_log[j] \in Answered) <=> StageResult(j) # None

\* C6 as amended: when an Exception escapes stage k, no request of a later
\* stage is sent, success becomes false, the exception text is appended to the
\* error list, the fields of the stages answered before k keep their payloads,
\* and the driver returns the aggregate; when what escapes is a BaseException
\* that is not an Exception, no request of a later stage is sent either, but
\* the driver does not catch it: it raises to its caller, returns no
\* aggregate, and the aggregate under construction is left as it was.
C6_EscapeAbortsRemainingStages ==
    /\ [](\A k \in Stages : wf_log[k] = "escaped" =>
            /\ wf_pc = "returned"
            /\ ~Aggregate.success
            /\ Aggregate.errors = <<TheValue(completed["wf"]).outcome.error>>
            /\ \A j \in Stages : j > k => wf_log[j] = "unsent"
            /\ wf_sent[Len(wf_sent)] = TheValue(completed["wf"]).request
            /\ \A j \in Stages :
                  (j < k /\ wf_log[j] \in Answered) <=> StageResult(j) # None)
    /\ [](\A k \in Stages : wf_log[k] = "propagated" =>
            /\ wf_pc = "raised"
            /\ TheValue(completed["wf"]).outcome.base
            /\ Aggregate.success
            /\ Aggregate.errors = <<>>
            /\ \A j \in Stages : j > k => wf_log[j] = "unsent"
            /\ wf_sent[Len(wf_sent)] = TheValue(completed["wf"]).request
            /\ \A j \in Stages :
                  (j < k /\ wf_log[j] \in Answered) <=> StageResult(j) # None)
    /\ [][\A k \in Stages :
            (wf_log[k] # "propagated" /\ wf_log'[k] = "propagated") =>
                result' = result]_vars
    /\ [][\A k \in Stages :
            (wf_log[k] # "escaped" /\ wf_log'[k] = "escaped") =>
                /\ TheValue(result').portfolio_allocation = Aggregate.portfolio_allocation
                /\ TheValue(result').risk_assessment = Aggregate.risk_assessment
                /\ TheValue(result').strategy_recommendation = Aggregate.strategy_recommendation
                /\ TheValue(result').execution_plan = Aggregate.execution_plan
                /\ TheValue(result').risk_monitoring = Aggregate.risk_monitoring
                /\ TheValue(result').errors = Append(Aggregate.errors, TheValue(completed'["wf"]).outcome.error)]_vars

\* The stage-4 send raised after three stages had been answered.
C6_Witness ==
    /\ wf_log[4] = "escaped"
    /\ wf_pc = "returned"
    /\ StageResult(1) # None /\ StageResult(2) # None /\ StageResult(3) # None
    /\ StageResult(4) = None /\ StageResult(5) = None

\* C7: in every run that returns its aggregate the execution agent is sent a
\* command, and execution_plan is populated, if and only if the stage-3
\* signal is "BUY"; for any other signal or a missing one execution_plan
\* stays None while stage 5 still runs.  Checked on the runs of the driver
\* over the system's own send_message (SpecWorkflowAnswered); a run ended by
\* a BaseException returns no aggregate.
C7_ExecutionIffBuy ==
    wf_pc = "returned" =>
        /\ wf_log[4] # "unsent" <=> TacticalSignal = Some("BUY")
        /\ StageResult(4) # None <=> TacticalSignal = Some("BUY")
        /\ (StageResult(3) # None /\ TacticalSignal # Some("BUY")) =>
              (StageResult(4) = None /\ wf_log[5] # "unsent")

\* A run whose tactical signal was HOLD has returned: stage 4 was skipped and
\* stage 5 was answered.
C7_Witness ==
    /\ wf_pc = "returned"
    /\ TacticalSignal = Some("HOLD")
    /\ wf_log[4] = "unsent"
    /\ StageResult(4) = None
    /\ wf_log[5] = "returned"

\* The request the driver sent to the execution agent: {} when there is none.
ExecutionRequest ==
    {wf_sent[i] : i \in {j \in DOMAIN wf_sent :
                            wf_sent[j].target_agent = "order_execution"}}

\* C8 as stated: when the tactical signal is "BUY" with entry price p, the
\* order sent to the execution agent has price p and side "BUY", and the
\* execution plan recorded as the stage-4 result carries the same price and
\* side.
C8_OrderAndPlanCarryEntryPrice ==
    (wf_pc = "returned" /\ TacticalSignal = Some("BUY") /\ TacticalEntryPrice # None) =>
        /\ ExecutionRequest # None
        /\ \A m \in ExecutionRequest :
              /\ m.payload.order.price = TacticalEntryPrice
              /\ m.payload.order.side = "BUY"
        /\ StageResult(4) # None
        /\ "execution_plan" \in DOMAIN TheValue(StageResult(4))
        /\ TheValue(StageResult(4)).execution_plan.price = TheValue(TacticalEntryPrice)
        /\ TheValue(StageResult(4)).execution_plan.side = "BUY"

\* C8 as amended: when the tactical signal is "BUY" with entry price p, the
\* order sent to the execution agent has price p and side "BUY"; the stage-4
\* result carries an execution plan with the same price and side exactly when
\* the execution agent's handler returns, which needs p > 0 (OrderPlan's
\* constraint); when the handler fails the stage-4 result is the failed-alert
\* payload, and when the send raises there is no stage-4 result.
C8_OrderCarriesEntryPrice ==
    (wf_pc = "returned" /\ TacticalSignal = Some("BUY") /\ TacticalEntryPrice # None) =>
        /\ ExecutionRequest # None
        /\ \A m \in ExecutionRequest :
              /\ m.message_type = "command"
              /\ m.payload.order.price = TacticalEntryPrice
              /\ m.payload.order.side = "BUY"
        /\ wf_log[4] = "returned" =>
              /\ TheValue(TacticalEntryPrice) > 0
              /\ StageResult(4) # None
              /\ "execution_plan" \in DOMAIN TheValue(StageResult(4))
              /\ TheValue(StageResult(4)).execution_plan.price = TheValue(TacticalEntryPrice)
              /\ TheValue(StageResult(4)).execution_plan.side = "BUY"
        /\ wf_log[4] = "handler_failed" =>
              /\ StageResult(4) # None
              /\ FailedPayload(TheValue(StageResult(4)))
        /\ TheValue(TacticalEntryPrice) <= 0 => wf_log[4] # "returned"
        /\ wf_log[4] = "escaped" => StageResult(4) = None

\* A BUY at entry price 250 has been planned at 250.
C8_Witness ==
    /\ wf_pc = "returned"
    /\ TacticalSignal = Some("BUY")
    /\ TacticalEntryPrice = Some(250)
    /\ wf_log[4] = "returned"
    /\ TheValue(StageResult(4)).execution_plan.price = 250

StageOrder ==
    <<"portfolio_manager", "risk_manager", "strategy_research",
      "order_execution", "realtime_risk">>

StageOrderSkipping ==
    <<"portfolio_manager", "risk_manager", "strategy_research", "realtime_risk">>

IsPrefix(s, t) ==
    /\ Len(s) <= Len(t)
    /\ \A i \in 1..Len(s) : s[i] = t[i]

SentTargets == [i \in 1..Len(wf_sent) |-> wf_sent[i].target_agent]

\* C9: the stage requests are issued in the order portfolio_manager,
\* risk_manager, strategy_research, (order_execution), realtime_risk; a request
\* is sent only once every earlier request has been answered, so at most one
\* request of the run is in flight.
C9_StagesInOrderOneInFlight ==
    /\ IsPrefix(SentTargets, StageOrder) \/ IsPrefix(SentTargets, StageOrderSkipping)
    /\ Cardinality({k \in Stages : wf_log[k] = "inflight"}) <= 1
    /\ Cardinality({a \in AgentKeys : agent_state[a] = "processing"}) <= 1
    /\ \A i \in 1..Len(wf_sent) : i < Len(wf_sent) =>
          /\ agent_state[wf_sent[i].target_agent] \in {"idle", "error"}
          /\ wf_sent[i].message_id \in DOMAIN memory[wf_sent[i].target_agent]
          /\ inflight["wf"] # Some([key |-> wf_sent[i].target_agent,
                                    message |-> wf_sent[i]])
    /\ inflight["wf"] # None =>
          /\ wf_sent # <<>>
          /\ TheValue(inflight["wf"]).message = wf_sent[Len(wf_sent)]
          /\ wf_pc = "awaiting"

\* The run has sent all five requests and returned.
C9_Witness ==
    /\ wf_pc = "returned"
    /\ SentTargets = StageOrder
    /\ \A k \in Stages : wf_log[k] \in Answered

\* C10: the payload recorded as the stage-1 result is what the requests to the
\* risk manager (stage 2) and to the monitoring agent (stage 5) carry under
\* "portfolio", whether or not stage 4 ran.
C10_PortfolioThreaded ==
    \A i \in DOMAIN wf_sent :
        wf_sent[i].target_agent \in {"risk_manager", "realtime_risk"} =>
            /\ StageResult(1) # None
            /\ wf_sent[i].payload = [portfolio |-> TheValue(StageResult(1))]

\* Stage 4 was skipped and the monitoring agent was sent the allocation the
\* portfolio manager returned.
C10_Witness ==
    /\ wf_pc = "returned"
    /\ wf_log[4] = "unsent"
    /\ wf_log[5] = "returned"
    /\ wf_log[1] = "returned"
    /\ "allocation" \in DOMAIN wf_sent[Len(wf_sent)].payload.portfolio
    /\ wf_sent[Len(wf_sent)].target_agent = "realtime_risk"

\* The risk limits a stage-2 payload holds: the mapping under "risk_limits",
\* in the payload itself or in its risk metrics, and the empty mapping when
\* it has none.
RiskLimitSubField(p) ==
    IF "risk_limits" \in DOMAIN p THEN p.risk_limits
    ELSE IF "risk_metrics" \in DOMAIN p /\ "risk_limits" \in DOMAIN p.risk_metrics
         THEN p.risk_metrics.risk_limits
         ELSE EmptyDict

\* C11: the request sent to the tactical strategy agent carries the original
\* market snapshot unchanged and, under "risk_limits", the risk-limit sub-field
\* of the stage-2 payload (the empty mapping when that payload has none).
C11_SnapshotAndRiskLimits ==
    \A i \in DOMAIN wf_sent :
        wf_sent[i].target_agent = "strategy_research" =>
            /\ StageResult(2) # None
            /\ DOMAIN wf_sent[i].payload = {"market_data", "risk_limits"}
            /\ wf_sent[i].payload.market_data = TheValue(market_data)
            /\ wf_sent[i].payload.risk_limits =
                   RiskLimitSubField(TheValue(StageResult(2)))

(***************************************************************************)
(* Allocation (a pydantic model).  Fractions are in hundredths: 0.8 is 80. *)
(* pydantic validates the fields in their declaration order; a field that  *)
(* passes its constraints is given to the field validator together with    *)
(* info.data, the fields validated before it; a field that fails is left   *)
(* out of info.data and its error is collected.                            *)
(***************************************************************************)
Put(d, k, v) == [x \in DOMAIN d \cup {k} |-> IF x = k THEN v ELSE d[x]]

\* Field(ge=0, le=1)
FractionInRange(v) == v >= 0 /\ v <= 100

\* total = sum(values.get(k, 0) for k in ["stocks", "bonds", "cash"])
AllocationTotal(values) ==
    Get(values, "stocks", 0) + Get(values, "bonds", 0) + Get(values, "cash", 0)

\* validate_allocation_sum(v, info): TRUE when it returns v, FALSE when it
\* raises ValueError.  The field being validated is not yet in info.data.
ValidateAllocationSum(v, data) == ~(AllocationTotal(data) > 100)

\* One field of the construction a: [input, data, errors]
ValidateAllocationField(a, f) ==
    LET v == a.input[f]
        ok == /\ FractionInRange(v)
              /\ f \in {"stocks", "bonds", "cash"} => ValidateAllocationSum(v, a.data)
    IN  IF ok THEN [a EXCEPT !.data = Put(@, f, v)]
        ELSE [a EXCEPT !.errors = Append(@, f)]

\* Allocation(stocks=, bonds=, cash=, rebalance_trigger=): the object, or a
\* ValidationError naming the fields that failed.
Allocation(input) ==
    LET a0 == [input |-> input, data |-> EmptyDict, errors |-> <<>>]
        a1 == ValidateAllocationField(a0, "stocks")
        a2 == ValidateAllocationField(a1, "bonds")
        a3 == ValidateAllocationField(a2, "cash")
        a4 == ValidateAllocationField(a3, "rebalance_trigger")
    IN  [input |-> input, constructed |-> a4.errors = <<>>,
         errors |-> a4.errors,
         object |-> IF a4.errors = <<>> THEN Some(a4.data) ELSE None]

\* The arguments tried: the test's 0.8 / 0.3 / 0.1, the bounds 0 and 1, and
\* values outside [0, 1].
AllocationFractions == {-10, 0, 10, 30, 50, 80, 100, 120}

AllocationInputs ==
    [stocks : AllocationFractions, bonds : AllocationFractions,
     cash : AllocationFractions, rebalance_trigger : {5}]

InitAllocation ==
    /\ InitSystem
    /\ allocation \in {Some([input |-> i, pending |-> TRUE]) : i \in AllocationInputs}
    /\ wire = None
    /\ tool = None

ConstructAllocation ==
    /\ allocation # None
    /\ "pending" \in DOMAIN TheValue(allocation)
    /\ allocation' = Some(Allocation(TheValue(allocation).input))
    /\ UNCHANGED <<agent_vars, workflow_vars, status_report, wire, tool>>

NextAllocation == ConstructAllocation

SpecAllocation == InitAllocation /\ [][NextAllocation]_vars

(***************************************************************************)
(* Claims about Allocation (specification SpecAllocation)                  *)
(***************************************************************************)
\* The constructions that have finished.
Constructed == {a \in allocation : "constructed" \in DOMAIN a}

\* C12: for stocks, bonds and cash each in [0, 1], constructing an Allocation
\* fails validation whenever stocks + bonds + cash > 1 and succeeds whenever
\* the sum is <= 1.
C12_AllocationSumValidated ==
    \A a \in Constructed :
        ( /\ FractionInRange(a.input.stocks)
          /\ FractionInRange(a.input.bonds)
          /\ FractionInRange(a.input.cash) )
        => ( a.constructed <=>
                a.input.stocks + a.input.bonds + a.input.cash <= 100 )

(***************************************************************************)
(* Claims about an agent's status (specification SpecScheduler: the        *)
(* client awaits each call before it makes the next, so the calls on the   *)
(* scheduler follow one another and no two of them overlap; a call starts  *)
(* from whatever status the call before it left)                           *)
(***************************************************************************)
\* The callers whose call is suspended in the handler of agent k.
InFlightOn(infl, k) == {c \in Callers : infl[c] # None /\ TheValue(infl[c]).key = k}

\* C13: while the handler of a call runs the agent's status is "processing";
\* when the call has returned the status is "idle" if the handler succeeded
\* and "error" if it failed, never "processing"; and a step changes an
\* agent's status only if it is the entry or the return of a process_message
\* call on that agent.  A call that does not return, because its handler
\* raised a BaseException that is not an Exception, changes nothing: the
\* status stays "processing".  What the status was when the call began
\* plays no part: a call that follows a failed one, or one that did not
\* return, sets "processing" and ends as its own handler decides.
C13_StatusFollowsCall ==
    /\ [](\A k \in AgentKeys :
            /\ agent_state[k] \in {"idle", "processing", "error"}
            /\ InFlightOn(inflight, k) # {} => agent_state[k] = "processing"
            /\ \A c \in Callers : \A f \in completed[c] :
                  (f.handler_ran /\ f.agent = Some(k)) =>
                      IF f.outcome.raised
                      THEN f.handler_base /\ agent_state[k] = "processing"
                      ELSE agent_state[k] =
                              IF f.handler_error = None THEN "idle" ELSE "error")
    /\ [][\A k \in AgentKeys :
            agent_state'[k] # agent_state[k] =>
                \/ /\ InFlightOn(inflight, k) = {}
                   /\ InFlightOn(inflight', k) # {}
                   /\ agent_state'[k] = "processing"
                \/ /\ InFlightOn(inflight, k) # {}
                   /\ InFlightOn(inflight', k) = {}
                   /\ agent_state[k] = "processing"
                   /\ agent_state'[k] \in {"idle", "error"}
                   /\ \E c \in InFlightOn(inflight, k) : \E f \in completed'[c] :
                         ~f.outcome.raised]_vars

\* The second of two successive calls on the scheduler has returned with its
\* handler's success and left the agent "idle", the other agents untouched.
\* The first call was a command whose handler raised an Exception, so the
\* second began from "error": the first request got identifier 1 and the
\* second 3, the one in between being the alert's (a command that succeeds
\* draws two, a BaseException none), and the queue holds the second call's
\* task only.
C13_Witness ==
    \E f \in completed["client"] :
        /\ f.handler_ran
        /\ f.agent = Some("task_scheduler")
        /\ f.handler_error = None
        /\ ~f.outcome.raised
        /\ f.request.message_type = "command"
        /\ f.request.message_id = 3
        /\ DOMAIN memory["task_scheduler"] = {1, 3}
        /\ memory["task_scheduler"][1].received.message_type = "command"
        /\ Len(task_queue) = 1
        /\ inflight["client"] = None
        /\ agent_state["task_scheduler"] = "idle"
        /\ \A k \in AgentKeys \ {"task_scheduler"} : agent_state[k] = "idle"

(***************************************************************************)
(* The tool wrappers of src/aap/tools.  A wrapper call is a sequence of    *)
(* external calls (HTTP requests, SDK calls, file reads), each of which    *)
(* returns or raises; `tool` holds the call: the wrapper's name, the       *)
(* external call it is waiting for (at), the external calls made so far,   *)
(* the polls made, the browser history once bound, the result envelope,    *)
(* the exception the external call raised (failed) and the exception the   *)
(* wrapper itself raised to its caller (raised).                           *)
(*                                                                         *)
(* An entry of an envelope's error list is a text: its form tells whether  *)
(* it is str(e), traceback.format_exc() or an entry of the browser's       *)
(* history, `wrapper` is the message of the RuntimeError a helper wrapped  *)
(* the exception in ("" when it did not), and `text` is the message of the *)
(* exception first raised, which all these texts contain.                  *)
(***************************************************************************)
max_polls == 300

VideoTools == {"summarize_video", "video_qa", "transcribe_and_describe_video"}

ToolNames ==
    {"google_search", "complete_browser_task", "convert_document_to_markdown",
     "process_image", "complex_problem_reasoning"} \cup VideoTools

ExternalErrors == {"connection reset"}

ErrorEntry(form, wrapper, text) == [form |-> form, wrapper |-> wrapper, text |-> text]

\* [traceback.format_exc(), str(e)] and [str(e), traceback.format_exc()]
TracebackThenStr(wrapper, text) ==
    <<ErrorEntry("traceback", wrapper, text), ErrorEntry("str", wrapper, text)>>

StrThenTraceback(wrapper, text) ==
    <<ErrorEntry("str", wrapper, text), ErrorEntry("traceback", wrapper, text)>>

\* The class-level default of DocumentResult.conversion_result: a one-element
\* tuple holding the Field(None, ...) declaration.
FieldDefaultTuple == [default_tuple |-> "Field(None)"]

\* The JSON body of one poll's response, without its status: each key is an
\* Optional value, {} when the body has no such key.
PollBody(success, markdown, html, json, images, metadata, error, page_count) ==
    [success |-> success, markdown |-> markdown, html |-> html, json |-> json,
     images |-> images, metadata |-> metadata, error |-> error,
     page_count |-> page_count]

EmptyBody == PollBody(None, None, None, None, None, None, None, None)

\* The bodies a poll that reports "complete" may carry: the status alone, a
\* finished conversion, and a conversion the service reports as failed.
CompleteBodies ==
    { EmptyBody,
      PollBody(Some(TRUE), Some("# doc"), Some("<h1>doc</h1>"),
               Some([children |-> <<>>]), Some([fig |-> "base64"]),
               Some([pages |-> 1]), None, Some(1)),
      PollBody(Some(FALSE), None, None, None, None, None,
               Some("conversion failed"), None) }

\* ConversionResult(...) as _poll_result builds it (lines 107-118): success
\* is result_data.get("success", False), output_format is the literal
\* "markdown", and the other fields are result_data.get(key), None when the
\* body has no such key.
ConversionResult(body, status) ==
    [success |-> IF body.success = None THEN FALSE ELSE TheValue(body.success),
     output_format |-> "markdown", markdown |-> body.markdown,
     html |-> body.html, json |-> body.json, images |-> body.images,
     metadata |-> body.metadata, error |-> body.error,
     page_count |-> body.page_count, status |-> status]

\* The envelope each wrapper constructs before its try block.
NewEnvelope(name) ==
    CASE name = "google_search" ->
            [query |-> "q", documents |-> <<>>, execution_successful |-> FALSE,
             errors |-> None]
      [] name = "complete_browser_task" ->
            [task |-> "t", execution_successful |-> FALSE,
             task_completion |-> None, errors |-> None]
      [] name = "convert_document_to_markdown" ->
            [file_path |-> "doc.pdf", conversion_result |-> Some(FieldDefaultTuple),
             errors |-> None]
      [] name = "process_image" ->
            [question |-> "q", answer |-> None, errors |-> None,
             execution_successful |-> FALSE]
      [] name = "complex_problem_reasoning" ->
            [task |-> "q", final_conclusion |-> None, errors |-> None,
             execution_successful |-> FALSE]
      [] name \in VideoTools ->
            [prompt |-> "p", video_path |-> "v.mp4", answer |-> None,
             errors |-> None, execution_successful |-> FALSE]

\* The num_results argument of google_search as the function body sees it:
\* the Field(10, ...) declaration when the caller gave none, else an integer.
DefaultNumResults == 10

FieldInfo(default) == [field_default |-> default]

IntArg(n) == [int |-> n]

IsFieldInfo(arg) == DOMAIN arg = {"field_default"}

NumResultsArgs == {FieldInfo(DefaultNumResults)} \cup {IntArg(n) : n \in {1, 5, 10}}

\* The other wrappers have no such argument.
NoArg == <<>>

ToolArgs(name) == IF name = "google_search" THEN NumResultsArgs ELSE {NoArg}

\* The query parameters of the search request (lines 49-56); key and cx are
\* the two environment values.
SearchParams(query, num_results) ==
    [key |-> "GOOGLE_API_KEY", cx |-> "GOOGLE_CSE_ID", q |-> query,
     num |-> IF IsFieldInfo(num_results) THEN num_results.field_default ELSE 10,
     language |-> "en", country |-> "us"]

\* The first external call of a wrapper.
FirstCall(name) ==
    CASE name = "google_search" -> "httpx.get"
      [] name = "complete_browser_task" -> "agent.run"
      [] name = "convert_document_to_markdown" -> "_prepare_file_entity"
      [] name = "process_image" -> "load_images"
      [] name = "complex_problem_reasoning" -> "acall_llm_model"
      [] name \in VideoTools -> "generate_content"

\* `return result`
ToolReturn(t, envelope) ==
    [t EXCEPT !.pc = "returned", !.at = "", !.envelope = envelope]

\* An exception leaves the wrapper.
ToolRaise(t, type, text) ==
    [t EXCEPT !.pc = "raised", !.at = "",
              !.raised = Some([type |-> type, text |-> text])]

\* The wrapper up to its first external call.  google_search returns at once
\* when its API key or engine id is missing from the environment.
StartTool(name, env_ok, arg) ==
    LET t == [name |-> name, pc |-> "running", at |-> FirstCall(name),
              calls |-> <<>>, polls |-> 0, last_status |-> "",
              env_ok |-> env_ok, history |-> None, arg |-> arg, params |-> None,
              envelope |-> NewEnvelope(name), failed |-> None, raised |-> None]
    IN  IF name = "google_search"
        THEN IF ~env_ok
             THEN ToolReturn(t, [t.envelope EXCEPT !.errors =
                      Some(<<ErrorEntry("str", "",
                             "Missing GOOGLE_API_KEY or GOOGLE_CSE_ID in environment.")>>)])
             ELSE [t EXCEPT !.params = Some(SearchParams(t.envelope.query, arg))]
        ELSE t

\* What an external call may give back: it raises (text), or returns; a poll
\* returns a job status and body, the browser run a history.  `base` tells
\* the class of what is raised: FALSE for an Exception, TRUE for a
\* BaseException that is not an Exception (asyncio.CancelledError delivered
\* to a task cancelled while it is suspended in an await, KeyboardInterrupt).
\* `in_sleep` tells that it came while _poll_result was suspended in
\* `await asyncio.sleep(poll_interval)`, before the poll's requests.get.
Raises(text) ==
    [raises |-> TRUE, base |-> FALSE, in_sleep |-> FALSE, text |-> text,
     status |-> "", is_done |-> FALSE, has_errors |-> FALSE, body |-> EmptyBody]

RaisesBase(text) == [Raises(text) EXCEPT !.base = TRUE]

CancelledInSleep(text) == [RaisesBase(text) EXCEPT !.in_sleep = TRUE]

Answers(status, is_done, has_errors) ==
    [raises |-> FALSE, base |-> FALSE, in_sleep |-> FALSE, text |-> "",
     status |-> status, is_done |-> is_done, has_errors |-> has_errors,
     body |-> EmptyBody]

\* A poll's response: result_data["status"] and the rest of the body.
PollAnswers(status, body) ==
    [Answers(status, FALSE, FALSE) EXCEPT !.body = body]

CallOutcomes(at) ==
    {Raises(x) : x \in ExternalErrors} \cup
    {RaisesBase(x) : x \in BaseExceptionTexts} \cup
    (CASE at = "requests.get" ->
              {PollAnswers("complete", b) : b \in CompleteBodies} \cup
              {PollAnswers("processing", EmptyBody)} \cup
              {CancelledInSleep(x) : x \in BaseExceptionTexts}
       [] at = "agent.run" -> {Answers("", d, e) : d \in BOOLEAN, e \in BOOLEAN}
       [] OTHER -> {Answers("", FALSE, FALSE)})

\* history.errors(): one entry per step, None for a step without error.
HistoryErrors(has_errors) ==
    IF has_errors
    THEN <<ErrorEntry("none", "", ""), ErrorEntry("history", "", "step failed")>>
    ELSE <<ErrorEntry("none", "", "")>>

NotNone(errors) == SelectSeq(errors, LAMBDA e : e.form # "none")

\* Every wrapper guards its body with `except Exception`, which does not
\* catch a BaseException that is not an Exception: the wrapper raises it to
\* its caller and returns no envelope.
Uncaught(t, o) == ToolRaise(t, "CancelledError", o.text)

\* google_search from the end of its request (lines 48-71)
GoogleSearchStep(t, o) ==
    IF o.raises /\ o.base THEN Uncaught(t, o)
    ELSE IF o.raises
    THEN ToolReturn(t, [t.envelope EXCEPT
             !.errors = Some(<<ErrorEntry("traceback", "", o.text)>>),
             !.execution_successful = FALSE])
    ELSE ToolReturn(t, [t.envelope EXCEPT
             !.execution_successful = TRUE,
             !.documents = <<"document">>])

\* complete_browser_task from the end of agent.run() or of the writing of the
\* screenshots (lines 95-133).  The except clause reads `history`, which is
\* bound only once agent.run() has returned.
BrowserStep(t, o) ==
    IF o.raises /\ o.base THEN Uncaught(t, o)
    ELSE IF t.at = "agent.run"
    THEN IF o.raises
         THEN ToolRaise(t, "UnboundLocalError",
                        "cannot access local variable 'history'")
         ELSE [t EXCEPT !.history = Some([is_done |-> o.is_done,
                                          has_errors |-> o.has_errors]),
                        !.at = "write_screenshots"]
    ELSE LET history == TheValue(t.history)
         IN  IF o.raises
             THEN ToolReturn(t, [t.envelope EXCEPT
                      !.errors = Some(HistoryErrors(history.has_errors) \o
                                      <<ErrorEntry("traceback", "", o.text)>>)])
             ELSE ToolReturn(t, [t.envelope EXCEPT
                      !.execution_successful =
                          history.is_done /\ ~history.has_errors,
                      !.task_completion = Some("done"),
                      !.errors = IF history.has_errors
                                 THEN Some(NotNone(HistoryErrors(TRUE)))
                                 ELSE None])

\* Mutant: the loop allows one poll more than max_polls.
PollAgain_OneMore(polls) == polls <= max_polls

\* for _ in range(max_polls): another poll follows when `polls` were made
PollAgain(polls) == polls < max_polls

\* except Exception as e: result.errors = [traceback.format_exc(), str(e)]
DocumentFailure(t, wrapper, text) ==
    ToolReturn(t, [t.envelope EXCEPT !.errors = Some(TracebackThenStr(wrapper, text))])

\* Mutant: a poll that raised is tried again while polls remain.
PollStep_RetriesOnError(t, o) ==
    LET p == [t EXCEPT !.polls = @ + 1, !.last_status = o.status]
    IN  IF o.raises /\ o.base
        THEN Uncaught(IF o.in_sleep THEN t ELSE p, o)
        ELSE IF o.raises /\ ~PollAgain(p.polls)
        THEN DocumentFailure(p, "Failed to poll document result: ", o.text)
        ELSE IF o.status = "complete"
        THEN ToolReturn(p, [p.envelope EXCEPT
                 !.conversion_result =
                     Some(ConversionResult(o.body, o.status))])
        ELSE IF PollAgain(p.polls) THEN p
        ELSE DocumentFailure(p, "Failed to poll document result: ",
                             "Document processing timed out.")

\* _poll_result from the sleep before one requests.get to the end of that
\* request (lines 98-123).  Neither its `except Exception` (line 120) nor the
\* wrapper's (line 165) catches a BaseException that is not an Exception; when
\* it comes in the sleep the request is not made.
PollStep(t, o) ==
    LET p == [t EXCEPT !.polls = @ + 1, !.last_status = o.status]
    IN  IF o.raises /\ o.base
        THEN Uncaught(IF o.in_sleep THEN t ELSE p, o)
        ELSE IF o.raises
        THEN DocumentFailure(p, "Failed to poll document result: ", o.text)
        ELSE IF o.status = "complete"
        THEN ToolReturn(p, [p.envelope EXCEPT
                 !.conversion_result =
                     Some(ConversionResult(o.body, o.status))])
        ELSE IF PollAgain(p.polls) THEN p
        ELSE DocumentFailure(p, "Failed to poll document result: ",
                             "Document processing timed out.")

\* convert_document_to_markdown from the end of an external call (lines 150-168)
DocumentStep(t, o) ==
    CASE t.at = "requests.get" -> PollStep(t, o)
      [] o.raises /\ o.base -> Uncaught(t, o)
      [] t.at = "_prepare_file_entity" ->
            IF o.raises THEN DocumentFailure(t, "", o.text)
            ELSE IF ~t.env_ok
            THEN DocumentFailure(t, "",
                     "DATALAB_API_KEY environment variable is not set.")
            ELSE [t EXCEPT !.at = "requests.post"]
      [] t.at = "requests.post" ->
            IF o.raises
            THEN DocumentFailure(t, "Failed to establish document session: ", o.text)
            ELSE [t EXCEPT !.at = "requests.get"]

\* process_image: the reading of the images, then the model call (lines 50-93)
ImageStep(t, o) ==
    IF o.raises /\ o.base THEN Uncaught(t, o)
    ELSE IF t.at = "load_images"
    THEN IF o.raises
         THEN ToolReturn(t, [t.envelope EXCEPT
                  !.errors = Some(StrThenTraceback("", o.text))])
         ELSE [t EXCEPT !.at = "generate_content"]
    ELSE IF o.raises
         THEN ToolReturn(t, [t.envelope EXCEPT
                  !.execution_successful = FALSE,
                  !.errors = Some(StrThenTraceback("", o.text))])
         ELSE ToolReturn(t, [t.envelope EXCEPT
                  !.answer = Some("answer"),
                  !.execution_successful = TRUE])

\* summarize_video, video_qa, transcribe_and_describe_video (lines 54-81)
VideoStep(t, o) ==
    IF o.raises /\ o.base THEN Uncaught(t, o)
    ELSE IF o.raises
    THEN ToolReturn(t, [t.envelope EXCEPT
             !.errors = Some(TracebackThenStr("", o.text)),
             !.execution_successful = FALSE])
    ELSE ToolReturn(t, [t.envelope EXCEPT
             !.answer = Some("answer"),
             !.execution_successful = TRUE])

\* complex_problem_reasoning (lines 59-101)
ThinkStep(t, o) ==
    IF o.raises /\ o.base THEN Uncaught(t, o)
    ELSE IF o.raises
    THEN ToolReturn(t, [t.envelope EXCEPT
             !.errors = Some(StrThenTraceback("", o.text)),
             !.execution_successful = FALSE])
    ELSE ToolReturn(t, [t.envelope EXCEPT
             !.final_conclusion = Some("answer"),
             !.execution_successful = TRUE])

\* The wrapper from the end of the external call it waits for, whose outcome
\* is o, to its next external call or its return.
ToolStep(t, o) ==
    LET u == [t EXCEPT !.calls = IF o.in_sleep THEN @ ELSE Append(@, t.at),
                       !.failed = IF o.raises THEN Some(o.text) ELSE @]
    IN  CASE t.name = "google_search" -> GoogleSearchStep(u, o)
          [] t.name = "complete_browser_task" -> BrowserStep(u, o)
          [] t.name = "convert_document_to_markdown" -> DocumentStep(u, o)
          [] t.name = "process_image" -> ImageStep(u, o)
          [] t.name = "complex_problem_reasoning" -> ThinkStep(u, o)
          [] t.name \in VideoTools -> VideoStep(u, o)

\* The tools that read a key from the environment before their first request.
NeedsKey == {"google_search", "convert_document_to_markdown"}

CallTool(name, env_ok, arg) ==
    /\ tool = None
    /\ env_ok \/ name \in NeedsKey
    /\ arg \in ToolArgs(name)
    /\ tool' = Some(StartTool(name, env_ok, arg))
    /\ UNCHANGED <<agent_vars, workflow_vars, status_report, allocation, wire>>

ExternalCallEnds(o) ==
    /\ tool # None
    /\ TheValue(tool).pc = "running"
    /\ o \in CallOutcomes(TheValue(tool).at)
    /\ tool' = Some(ToolStep(TheValue(tool), o))
    /\ UNCHANGED <<agent_vars, workflow_vars, status_report, allocation, wire>>

AllOutcomes == CallOutcomes("requests.get") \cup CallOutcomes("agent.run")

NextTools ==
    \/ \E name \in ToolNames, env_ok \in BOOLEAN :
          \E arg \in ToolArgs(name) : CallTool(name, env_ok, arg)
    \/ \E o \in AllOutcomes : ExternalCallEnds(o)

SpecTools == Init /\ [][NextTools]_vars

\* Every external call ends: the HTTP requests carry a timeout.
SpecToolsFair ==
    SpecTools /\ WF_vars(\E o \in AllOutcomes : ExternalCallEnds(o))

(***************************************************************************)
(* Claims about the tool wrappers (specifications SpecTools, SpecToolsFair)*)
(***************************************************************************)
\* The wrapper call, once it has ended after an external call raised.
EndedAfterFailure ==
    {t \in tool : t.pc \in {"returned", "raised"} /\ t.failed # None}

\* C14: when the wrapped external call raises, the wrapper does not raise to
\* its caller: it returns its envelope with execution_successful false and a
\* non-empty error list containing the exception text.
C14_FailureCapturedInEnvelope ==
    \A t \in EndedAfterFailure :
        /\ t.pc = "returned"
        /\ t.raised = None
        /\ "execution_successful" \in DOMAIN t.envelope
        /\ t.envelope.execution_successful = FALSE
        /\ t.envelope.errors # None
        /\ \E i \in DOMAIN TheValue(t.envelope.errors) :
              TheValue(t.envelope.errors)[i].text = TheValue(t.failed)

\* The call of convert_document_to_markdown under way or ended.
DocumentCall == {t \in tool : t.name = "convert_document_to_markdown"}

TimedOut(t) ==
    /\ t.envelope.errors # None
    /\ \E i \in DOMAIN TheValue(t.envelope.errors) :
          /\ TheValue(t.envelope.errors)[i].text = "Document processing timed out."
          /\ TheValue(t.envelope.errors)[i].wrapper = "Failed to poll document result: "

\* C20: convert_document_to_markdown terminates.  Its polling loop makes at
\* most max_polls (300) polls; the first poll that reports "complete" ends the
\* call with the conversion result; when max_polls polls have been made and
\* none reported "complete" the call returns with the timeout in the
\* envelope's errors; and every call eventually ends: it returns its
\* envelope, or, when a BaseException that is not an Exception reached it (a
\* cancelled task), it raises that exception.
C20_PollingTerminates ==
    /\ [](\A t \in DocumentCall :
            /\ t.polls <= max_polls
            /\ t.pc = "raised" =>
                  /\ t.raised = Some([type |-> "CancelledError",
                                      text |-> TheValue(t.failed)])
                  /\ TheValue(t.failed) \in BaseExceptionTexts
                  /\ t.last_status # "complete"
            /\ (t.pc = "running" /\ t.polls > 0) =>
                  (t.last_status = "processing" /\ t.polls < max_polls)
            /\ (t.pc = "returned" /\ t.last_status = "complete") =>
                  /\ t.envelope.conversion_result \in
                        {Some(ConversionResult(b, "complete")) : b \in CompleteBodies}
                  /\ t.envelope.errors = None
            /\ (t.pc = "returned" /\ t.last_status = "processing") =>
                  (t.polls = max_polls /\ TimedOut(t)))
    /\ [][\A t \in DocumentCall : \A u \in tool' :
            u.polls # t.polls =>
                /\ u.polls = t.polls + 1
                /\ t.pc = "running"
                /\ t.last_status # "complete"
                /\ (u.last_status = "complete" => u.pc = "returned")]_vars
    /\ (DocumentCall # {}) ~>
          (\E t \in DocumentCall : t.pc \in {"returned", "raised"})

\* The call has returned after max_polls polls, none of them complete, with
\* the timeout in its errors.
C20_Witness ==
    \E t \in DocumentCall :
        /\ t.pc = "returned"
        /\ t.polls = max_polls
        /\ t.last_status = "processing"
        /\ Len(t.calls) = max_polls + 2
        /\ TimedOut(t)

(***************************************************************************)
(* The JSON wire form of a TradingMessage (model_dump_json and             *)
(* model_validate_json).  payload and metadata are dict[str, Any]: their   *)
(* values are Python objects of any type, written here with their type:    *)
(* [str |-> s], [int |-> n], [bool |-> b], [uuid |-> n] (a uuid.UUID),     *)
(* [datetime |-> t], [dict |-> d], [list |-> l]; [str_of_uuid |-> n] and   *)
(* [str_of_datetime |-> t] are the str values holding the text of that     *)
(* UUID and the ISO text of that datetime.  A JSON value is a string       *)
(* token, a number, a boolean, an object or an array.  source_agent and    *)
(* target_agent are declared str (lines 56, 58) and take any text, a       *)
(* UUID's or a datetime's included: in a message of this part the two      *)
(* names are written as str values are, [str |-> s], [str_of_uuid |-> n]   *)
(* or [str_of_datetime |-> t].                                             *)
(***************************************************************************)
PyStr(s) == [str |-> s]

PyInt(n) == [int |-> n]

PyBool(b) == [bool |-> b]

PyUuid(n) == [uuid |-> n]

PyDatetime(t) == [datetime |-> t]

PyUuidStr(n) == [str_of_uuid |-> n]

PyIsoStr(t) == [str_of_datetime |-> t]

PyDict(d) == [dict |-> d]

PyList(l) == [list |-> l]

JString(s) == [jstring |-> s]

JUuidText(n) == [jstring_uuid |-> n]

JIsoText(t) == [jstring_iso |-> t]

JNumber(n) == [jnumber |-> n]

JBool(b) == [jbool |-> b]

JObject(d) == [jobject |-> d]

JArray(l) == [jarray |-> l]

\* Serialization of a value of a field declared Any: by the value's type.
RECURSIVE ToJson(_)
ToJson(v) ==
    CASE "str" \in DOMAIN v -> JString(v.str)
      [] "str_of_uuid" \in DOMAIN v -> JUuidText(v.str_of_uuid)
      [] "str_of_datetime" \in DOMAIN v -> JIsoText(v.str_of_datetime)
      [] "uuid" \in DOMAIN v -> JUuidText(v.uuid)
      [] "datetime" \in DOMAIN v -> JIsoText(v.datetime)
      [] "int" \in DOMAIN v -> JNumber(v.int)
      [] "bool" \in DOMAIN v -> JBool(v.bool)
      [] "dict" \in DOMAIN v -> JObject([k \in DOMAIN v.dict |-> ToJson(v.dict[k])])
      [] "list" \in DOMAIN v -> JArray([i \in DOMAIN v.list |-> ToJson(v.list[i])])

\* Mutant: a parser that turns a string token holding a UUID's text into a UUID.
JsonStringToPython_RevivesUuid(j) ==
    CASE "jstring" \in DOMAIN j -> PyStr(j.jstring)
      [] "jstring_uuid" \in DOMAIN j -> PyUuid(j.jstring_uuid)
      [] "jstring_iso" \in DOMAIN j -> PyIsoStr(j.jstring_iso)

\* A JSON string token parsed into a field declared Any is a str.
JsonStringToPython(j) ==
    CASE "jstring" \in DOMAIN j -> PyStr(j.jstring)
      [] "jstring_uuid" \in DOMAIN j -> PyUuidStr(j.jstring_uuid)
      [] "jstring_iso" \in DOMAIN j -> PyIsoStr(j.jstring_iso)

IsJsonString(j) == DOMAIN j \subseteq {"jstring", "jstring_uuid", "jstring_iso"}

\* Validation of a JSON value against Any.
RECURSIVE FromJson(_)
FromJson(j) ==
    CASE IsJsonString(j) -> JsonStringToPython(j)
      [] "jnumber" \in DOMAIN j -> PyInt(j.jnumber)
      [] "jbool" \in DOMAIN j -> PyBool(j.jbool)
      [] "jobject" \in DOMAIN j -> PyDict([k \in DOMAIN j.jobject |-> FromJson(j.jobject[k])])
      [] "jarray" \in DOMAIN j -> PyList([i \in DOMAIN j.jarray |-> FromJson(j.jarray[i])])

\* message.model_dump_json(): a JSON object with one member per field.  The
\* enum fields hold their values (use_enum_values), the identifier is
\* written as its text.
ModelDumpJson(m) ==
    [message_id |-> JUuidText(m.message_id),
     source_layer |-> JString(m.source_layer),
     source_agent |-> ToJson(m.source_agent),
     target_layer |-> JString(m.target_layer),
     target_agent |-> ToJson(m.target_agent),
     message_type |-> JString(m.message_type),
     priority |-> JString(m.priority),
     payload |-> ToJson(PyDict(m.payload)),
     metadata |-> ToJson(PyDict(m.metadata))]

\* The members pass the validation of their field's declared type: a UUID's
\* text for message_id, a member's value for the enum fields, any string
\* token for the two agent names, an object for payload and metadata.
WireFormValid(j) ==
    /\ "jstring_uuid" \in DOMAIN j.message_id
    /\ "jstring" \in DOMAIN j.source_layer /\ j.source_layer.jstring \in LayerType
    /\ "jstring" \in DOMAIN j.target_layer /\ j.target_layer.jstring \in LayerType
    /\ IsJsonString(j.source_agent)
    /\ IsJsonString(j.target_agent)
    /\ "jstring" \in DOMAIN j.message_type /\ j.message_type.jstring \in MessageType
    /\ "jstring" \in DOMAIN j.priority /\ j.priority.jstring \in Priority
    /\ "jobject" \in DOMAIN j.payload
    /\ "jobject" \in DOMAIN j.metadata

\* TradingMessage.model_validate_json(text): the message, or None when the
\* validation fails.  An agent name is the str its token holds, whatever the
\* text looks like.
ModelValidateJson(j) ==
    IF ~WireFormValid(j) THEN None
    ELSE Some(TradingMessage(j.message_id.jstring_uuid,
                             j.source_layer.jstring,
                             JsonStringToPython(j.source_agent),
                             j.target_layer.jstring,
                             JsonStringToPython(j.target_agent),
                             j.message_type.jstring, j.priority.jstring,
                             FromJson(j.payload).dict,
                             FromJson(j.metadata).dict))

\* The payloads, as Python objects, of the test's message and of the
\* responses the agents build.  model_dump() keeps a UUID field a uuid.UUID
\* and a datetime field a datetime.
TestPayload ==
    [market_data |-> PyDict([sp500 |-> PyInt(4500), volatility |-> PyInt(185)]),
     risk_limits |-> PyDict([max_var |-> PyInt(2), max_drawdown |-> PyInt(15)])]

\* order_plan.model_dump()
OrderPlanDump(plan) ==
    [order_id |-> PyUuid(plan.order_id), symbol |-> PyStr(plan.symbol),
     side |-> PyStr(plan.side), quantity |-> PyInt(plan.quantity),
     order_type |-> PyStr(plan.order_type), price |-> PyInt(plan.price),
     algorithm |-> PyStr(plan.algorithm),
     expected_slippage |-> PyInt(plan.expected_slippage),
     estimated_fees |-> PyInt(plan.estimated_fees)]

ExecutionPayload(order_id) ==
    [execution_plan |-> PyDict(OrderPlanDump(OrderPlan(order_id, "AAPL", "BUY", 100, 100))),
     status |-> PyStr("pending_execution"),
     estimated_completion |-> PyStr("2024-01-01T10:30:00Z")]

\* Alert(...).model_dump(), its timestamp being the datetime t
AlertDump(t) ==
    [type |-> PyStr("POSITION_SIZE"), severity |-> PyStr("MEDIUM"),
     message |-> PyStr("Tech sector exposure approaching limit"),
     timestamp |-> PyDatetime(t)]

MonitoringPayload(t) ==
    [risk_status |-> PyDict([current_var |-> PyInt(180),
                             exposure_check |-> PyStr("PASSED"),
                             margin_usage |-> PyInt(6500),
                             alerts |-> PyList(<<PyDict(AlertDump(t))>>)]),
     action_required |-> PyBool(TRUE),
     next_check |-> PyStr("2024-01-01T10:05:00Z")]

\* The scheduler reports str(task.task_id).
SchedulerPayload(task_id) ==
    [task_id |-> PyUuidStr(task_id), queue_position |-> PyInt(1),
     estimated_start |-> PyStr("2024-01-01T10:01:00Z")]

ErrorPayload == [error |-> PyStr("handler failed"), status |-> PyStr("failed")]

WireIds == {1, 2}

WirePayloads ==
    {EmptyDict, TestPayload, ExecutionPayload(7), MonitoringPayload(3),
     SchedulerPayload(7), ErrorPayload}

\* Requests carry no metadata or the driver's step name; responses refer to
\* their request by str(message_id).
WireMetadata ==
    {EmptyDict, [workflow_step |-> PyStr("order_execution")],
     [response_to |-> PyUuidStr(9)]}

\* The sender and the addressee a message names: registry keys, and names
\* whose text is a UUID's or a datetime's (a client may call itself by its
\* session's identifier).
WireAgents ==
    { <<PyStr("portfolio_manager"), PyStr("strategy_research")>>,
      <<PyUuidStr(5), PyStr("realtime_risk")>>,
      <<PyStr("test_system"), PyIsoStr(3)>> }

WireMessages ==
    {TradingMessage(id, sl, ag[1], "tactical", ag[2], mt, pr, pl, md) :
        id \in WireIds, sl \in LayerType, ag \in WireAgents,
        mt \in {"query", "response", "alert"},
        pr \in Priority, pl \in WirePayloads, md \in WireMetadata}

InitWire ==
    /\ InitSystem
    /\ allocation = None
    /\ wire \in {Some([message |-> m, pc |-> "built", json |-> None,
                       parsed |-> None]) : m \in WireMessages}
    /\ tool = None

\* serialized = message.model_dump_json()
DumpJson ==
    /\ wire # None
    /\ TheValue(wire).pc = "built"
    /\ wire' = Some([TheValue(wire) EXCEPT
                       !.pc = "serialized",
                       !.json = Some(ModelDumpJson(TheValue(wire).message))])
    /\ UNCHANGED <<agent_vars, workflow_vars, status_report, allocation, tool>>

\* deserialized = TradingMessage.model_validate_json(serialized)
ValidateJson ==
    /\ wire # None
    /\ TheValue(wire).pc = "serialized"
    /\ wire' = Some([TheValue(wire) EXCEPT
                       !.pc = "parsed",
                       !.parsed = ModelValidateJson(TheValue(TheValue(wire).json))])
    /\ UNCHANGED <<agent_vars, workflow_vars, status_report, allocation, tool>>

NextWire == DumpJson \/ ValidateJson

SpecWire == InitWire /\ [][NextWire]_vars

(***************************************************************************)
(* Claims about the wire form (specification SpecWire)                     *)
(***************************************************************************)
\* The round trips that have been made.
RoundTrips == {w \in wire : w.pc = "parsed"}

\* C15 as stated: the message parsed back from the wire form has the same
\* identifier and the same value in every field as the message serialized.
C15_RoundTripIdentity ==
    \A w \in RoundTrips : w.parsed = Some(w.message)

\* The value with every UUID and datetime object in it replaced by its text.
RECURSIVE AsText(_)
AsText(v) ==
    CASE "uuid" \in DOMAIN v -> PyUuidStr(v.uuid)
      [] "datetime" \in DOMAIN v -> PyIsoStr(v.datetime)
      [] "dict" \in DOMAIN v -> PyDict([k \in DOMAIN v.dict |-> AsText(v.dict[k])])
      [] "list" \in DOMAIN v -> PyList([i \in DOMAIN v.list |-> AsText(v.list[i])])
      [] OTHER -> v

\* The value holds strings, numbers, booleans, lists and mappings only.
RECURSIVE JsonNative(_)
JsonNative(v) ==
    CASE "uuid" \in DOMAIN v -> FALSE
      [] "datetime" \in DOMAIN v -> FALSE
      [] "dict" \in DOMAIN v -> \A k \in DOMAIN v.dict : JsonNative(v.dict[k])
      [] "list" \in DOMAIN v -> \A i \in DOMAIN v.list : JsonNative(v.list[i])
      [] OTHER -> TRUE

\* C15 as amended: the message parsed back has the same identifier, layers,
\* agents, kind and priority; its payload and metadata are those of the
\* message serialized with every UUID and datetime object replaced by its
\* text, all other values and all keys unchanged; so the two messages are
\* equal exactly when payload and metadata hold no such object.
C15_RoundTripUpToText ==
    \A w \in RoundTrips :
        /\ w.parsed # None
        /\ LET m == w.message
               q == TheValue(w.parsed)
           IN  /\ q.message_id = m.message_id
               /\ q.source_layer = m.source_layer
               /\ q.source_agent = m.source_agent
               /\ q.target_layer = m.target_layer
               /\ q.target_agent = m.target_agent
               /\ q.message_type = m.message_type
               /\ q.priority = m.priority
               /\ PyDict(q.payload) = AsText(PyDict(m.payload))
               /\ PyDict(q.metadata) = AsText(PyDict(m.metadata))
               /\ (q = m) <=> ( /\ JsonNative(PyDict(m.payload))
                                /\ JsonNative(PyDict(m.metadata)) )

\* The execution agent's response has made the round trip: the order_id of
\* its plan, a UUID, has come back as a str.
C15_Witness ==
    \E w \in RoundTrips :
        /\ w.parsed # None
        /\ w.message.payload = ExecutionPayload(7)
        /\ w.message.payload.execution_plan.dict.order_id = PyUuid(7)
        /\ TheValue(w.parsed).payload.execution_plan.dict.order_id = PyUuidStr(7)
        /\ TheValue(w.parsed).message_id = w.message.message_id

(***************************************************************************)
(* Claims about concurrent and successive calls (specification             *)
(* SpecConcurrent)                                                         *)
(***************************************************************************)
\* The requests delivered to agent k: those in flight and those answered.
RequestsInFlight(k) ==
    {TheValue(inflight[c]).message.message_id : c \in InFlightOn(inflight, k)}

RequestsAnswered(k) ==
    {f.request.message_id :
        f \in {g \in UNION {completed[c] : c \in Callers} : g.agent = Some(k)}}

\* What C16 says of the calls that have ended, with `returned` telling of a
\* finished call whether it counts as having returned its message: the
\* call ran the handler and returned exactly one message, whose response_to
\* is the identifier of its own request and which is addressed to the
\* request's sender; no two calls hold the same request, the same response
\* or responses to the same request; and the memory of every agent holds
\* exactly one entry per request delivered to it.
AnsweredOwnRequest(f) ==
    /\ ~f.outcome.raised
    /\ f.outcome.message # None
    /\ TheValue(f.outcome.message).metadata.response_to = f.request.message_id
    /\ TheValue(f.outcome.message).target_agent = f.request.source_agent

NotCrossWired(f, g) ==
    /\ f.request.message_id # g.request.message_id
    /\ (~f.outcome.raised /\ ~g.outcome.raised) =>
          /\ TheValue(f.outcome.message).message_id
                 # TheValue(g.outcome.message).message_id
          /\ TheValue(f.outcome.message).metadata.response_to
                 # TheValue(g.outcome.message).metadata.response_to

OneEntryPerRequest ==
    \A k \in AgentKeys :
        /\ DOMAIN memory[k] = RequestsInFlight(k) \cup RequestsAnswered(k)
        /\ Cardinality(DOMAIN memory[k]) =
              Cardinality({c \in SameAgentCallers :
                  \/ c \in InFlightOn(inflight, k)
                  \/ \E f \in completed[c] : f.agent = Some(k)})

\* C16 as stated: every one of the N calls gathered on one agent ends with
\* exactly one message, the response to its own request, none lost,
\* duplicated or cross-wired, and the agent's memory holds one entry per
\* request, under every interleaving.
C16_EveryCallReturnsItsMessage ==
    /\ \A c \in SameAgentCallers :
          /\ ~(inflight[c] # None /\ completed[c] # None)
          /\ \A f \in completed[c] :
                /\ f.handler_ran
                /\ AnsweredOwnRequest(f)
                /\ \A d \in SameAgentCallers \ {c} : \A g \in completed[d] :
                      NotCrossWired(f, g)
    /\ OneEntryPerRequest

\* C16 as amended: every one of the N calls gathered on one agent completes
\* (a call in flight always comes to its end); it ends with exactly one
\* message, the response to its own request, unless its handler is ended by
\* a BaseException that is not an Exception, and exactly then it ends by
\* raising that exception and returns no message; no response is lost,
\* duplicated or cross-wired between the calls that return; and the agent's
\* memory holds one entry per request, of the calls that raised too, under
\* every interleaving.
C16_ConcurrentCallsAnswered ==
    /\ [](/\ \A c \in SameAgentCallers :
                /\ ~(inflight[c] # None /\ completed[c] # None)
                /\ \A f \in completed[c] :
                      /\ f.handler_ran
                      /\ f.outcome.raised <=> f.handler_base
                      /\ f.outcome.raised =>
                            /\ f.outcome.base
                            /\ f.outcome.message = None
                            /\ f.outcome.error \in BaseExceptionTexts
                      /\ ~f.outcome.raised => AnsweredOwnRequest(f)
                      /\ \A d \in SameAgentCallers \ {c} : \A g \in completed[d] :
                            NotCrossWired(f, g)
          /\ OneEntryPerRequest)
    /\ \A c \in SameAgentCallers :
          (inflight[c] # None) ~> (inflight[c] = None /\ completed[c] # None)

\* All the gathered calls went to the monitoring agent, were in flight
\* together (their requests hold the first identifiers drawn) and have
\* ended, the first one sent being the last one answered; one of the others
\* was cut short by a BaseException.
C16_Witness ==
    /\ \A c \in SameAgentCallers :
          \E f \in completed[c] : f.agent = Some("realtime_risk")
    /\ RequestsAnswered("realtime_risk") = 1..MaxGathered
    /\ DOMAIN memory["realtime_risk"] = 1..MaxGathered
    /\ \E c \in SameAgentCallers : \E f \in completed[c] : f.outcome.raised
    /\ \E c \in SameAgentCallers : \E f \in completed[c] :
          /\ f.request.message_id = 1
          /\ ~f.outcome.raised
          /\ TheValue(f.outcome.message).message_id = 2 * MaxGathered - 1

\* C17: once process_message(m) has returned, with a response or with an
\* error alert, the agent's memory holds under m's identifier an entry whose
\* "received" is m; and no step removes or changes an entry of a memory.
C17_MemoryKeepsEveryMessage ==
    /\ [](\A c \in Callers : \A f \in completed[c] :
            f.handler_ran =>
                LET mem == memory[TheValue(f.agent)]
                IN  /\ f.request.message_id \in DOMAIN mem
                    /\ DOMAIN mem[f.request.message_id] = {"received"}
                    /\ mem[f.request.message_id].received = f.request)
    /\ [][\A k \in AgentKeys : \A id \in DOMAIN memory[k] :
            /\ id \in DOMAIN memory'[k]
            /\ memory'[k][id] = memory[k][id]]_vars

\* Two calls on the monitoring agent have returned one after the other (the
\* second request was built after the first response), the first with an
\* error alert, and the memory holds both messages.
C17_Witness ==
    \E c, d \in GatherCallers : \E f \in completed[c], g \in completed[d] :
        /\ f.agent = Some("realtime_risk")
        /\ g.agent = Some("realtime_risk")
        /\ f.handler_error # None
        /\ g.handler_error = None
        /\ ~f.outcome.raised
        /\ TheValue(f.outcome.message).message_id < g.request.message_id
        /\ {f.request.message_id, g.request.message_id}
               \subseteq DOMAIN memory["realtime_risk"]
        /\ memory["realtime_risk"][f.request.message_id].received = f.request

\* The agent on which the call of caller c entered or returned in a step.
CallAgent(before, after) == TheValue(before \cup after).key

\* C19: a step of process_message on agent A, its entry or its return, leaves
\* the status and the memory of every other agent unchanged, and leaves the
\* scheduler's task queue unchanged unless A is the scheduler.
C19_OtherAgentsUntouched ==
    [][\A c \in Callers :
          inflight'[c] # inflight[c] =>
              LET a == CallAgent(inflight[c], inflight'[c])
              IN  /\ \A b \in AgentKeys \ {a} :
                        /\ agent_state'[b] = agent_state[b]
                        /\ memory'[b] = memory[b]
                  /\ a # "task_scheduler" => task_queue' = task_queue]_vars

\* The scheduler holds a task and its command in memory, and afterwards a
\* call on the monitoring agent, whose handler failed, has returned.
C19_Witness ==
    /\ task_queue # <<>>
    /\ agent_state["task_scheduler"] = "idle"
    /\ DOMAIN memory["task_scheduler"] # {}
    /\ agent_state["realtime_risk"] = "error"
    /\ \E c \in GatherCallers : \E f \in completed[c] :
          /\ f.agent = Some("realtime_risk")
          /\ f.handler_error # None
          /\ \A i \in DOMAIN task_queue : task_queue[i].task_id < f.request.message_id

(***************************************************************************)
(* Claims about the system's mappings (specification SpecSystem)           *)
(***************************************************************************)
\* C18: the name-to-agent mapping and the name-to-state mapping both have
\* exactly the six keys portfolio_manager, risk_manager, strategy_research,
\* order_execution, realtime_risk and task_scheduler, and no step of
\* send_message, execute_trading_workflow or get_system_status adds, removes
\* or replaces an entry of either.
C18_MappingsFixed ==
    /\ [](/\ DOMAIN agents = {"portfolio_manager", "risk_manager",
                               "strategy_research", "order_execution",
                               "realtime_risk", "task_scheduler"}
          /\ DOMAIN agent_registry = DOMAIN agents)
    /\ [][agents' = agents /\ agent_registry' = agent_registry]_vars

\* The client's calls are used up, one of them on the monitoring agent has
\* returned, the workflow has returned and a status report listing six
\* agents was produced.
C18_Witness ==
    /\ \E f \in completed["client"] : f.agent = Some("realtime_risk")
    /\ wf_pc = "returned"
    /\ status_report # None
    /\ TheValue(status_report).total_agents = 6
    /\ calls = MaxCalls

(***************************************************************************)
(* Claims about the task scheduler's queue (specification SpecScheduler)   *)
(***************************************************************************)
\* The rank of a priority: high over medium over low.
PriorityRank(p) == CASE p = "high" -> 3 [] p = "medium" -> 2 [] p = "low" -> 1

\* C22: the task queue is sorted by priority: every high-priority task is
\* ahead of every medium-priority task, and every medium-priority task ahead
\* of every low-priority task.
C22_QueueSortedByPriority ==
    \A i, j \in DOMAIN task_queue :
        i < j => PriorityRank(task_queue[i].priority)
                     >= PriorityRank(task_queue[j].priority)

\* C24: two queued tasks of the same priority are in the order in which they
\* were enqueued (task identifiers are drawn in increasing order).
C24_EqualPriorityFifo ==
    \A i, j \in DOMAIN task_queue :
        (i < j /\ task_queue[i].priority = task_queue[j].priority)
            => task_queue[i].task_id < task_queue[j].task_id

\* Two tasks of one priority are queued with a task of another priority that
\* was enqueued between them.
C24_Witness ==
    \E i, j, k \in DOMAIN task_queue :
        /\ i < j
        /\ task_queue[i].priority = task_queue[j].priority
        /\ task_queue[k].priority # task_queue[i].priority
        /\ task_queue[i].task_id < task_queue[k].task_id
        /\ task_queue[k].task_id < task_queue[j].task_id

\* The send_message call of the client that returned in this step, if any.
ReturnedNow ==
    IF inflight["client"] # None /\ inflight'["client"] = None
    THEN completed'["client"] ELSE None

\* C30: the queue only grows.  A step in which a COMMAND message was handled
\* without failure appends exactly one task and reports as queue_position
\* the length of the queue after the insertion; a step in which a message of
\* another kind was handled, or a handler failed, and every other step
\* leave the queue as it was; no step removes a task.
C30_QueueOnlyGrows ==
    [][/\ \A i \in DOMAIN task_queue :
              \E j \in DOMAIN task_queue' : task_queue'[j] = task_queue[i]
       /\ IF \E f \in ReturnedNow :
                 f.request.message_type = "command" /\ f.handler_error = None
          THEN LET f == TheValue(ReturnedNow)
                   response == TheValue(f.outcome.message)
                   added == {j \in DOMAIN task_queue' :
                                \A i \in DOMAIN task_queue :
                                    task_queue[i] # task_queue'[j]}
               IN  /\ Len(task_queue') = Len(task_queue) + 1
                   /\ Cardinality(added) = 1
                   /\ \A j \in added :
                         task_queue'[j].task_id = response.payload.task_id
                   /\ response.payload.queue_position = Len(task_queue')
          ELSE task_queue' = task_queue]_vars

\* The last command answered added a task that the sort put at the head of
\* a full queue, and its response reports the length of the queue.
C30_Witness ==
    /\ Len(task_queue) = MaxCommands
    /\ \E f \in completed["client"] :
          /\ f.request.message_type = "command"
          /\ f.handler_error = None
          /\ TheValue(f.outcome.message).payload.queue_position = MaxCommands
          /\ task_queue[1].task_id = TheValue(f.outcome.message).payload.task_id

(***************************************************************************)
(* Claims about the search request (specification SpecTools)               *)
(***************************************************************************)
\* C23: the 'num' parameter of the search request is the caller's
\* num_results: the integer the caller passed, or 10 when the caller gave
\* none.
C23_NumIsNumResults ==
    \A t \in tool :
        (t.name = "google_search" /\ t.params # None) =>
            TheValue(t.params).num =
                IF DOMAIN t.arg = {"int"} THEN t.arg.int ELSE 10

(***************************************************************************)
(* A tool wrapper call and a run of the workflow driver side by side       *)
(* (specification SpecOperations)                                          *)
(***************************************************************************)
NextOperations ==
    \/ NextTools
    \/ WorkflowStart(RunSnapshot)
    \/ \E escape \in {None} \cup {Some(t) : t \in EscapeTexts} : WorkflowSend(escape)
    \/ \E run \in {NoFault(SourceSignal)} \cup Faults : WorkflowReceive(run)

SpecOperations == Init /\ [][NextOperations]_vars

\* C21: nothing is retried.  A tool wrapper whose external call raised has
\* ended in that very step and makes no external call afterwards; the step
\* in which a handler finishes, with or without failure, ends the call of
\* process_message it belongs to; the driver sends no stage's request twice
\* and sends nothing once a send has raised.
C21_NothingRetried ==
    /\ [](\A t \in tool :
            t.failed # None =>
                /\ t.pc \in {"returned", "raised"}
                /\ t.calls # <<>>)
    /\ [][\A t \in tool : t.failed # None => tool' = tool]_vars
    /\ [][(inflight["wf"] # None /\ inflight'["wf"] # inflight["wf"]) =>
             /\ inflight'["wf"] = None
             /\ \E f \in completed'["wf"] :
                   f.request = TheValue(inflight["wf"]).message]_vars
    /\ [](\A i, j \in DOMAIN wf_sent :
            i # j => wf_sent[i].target_agent # wf_sent[j].target_agent)
    /\ [][(\E k \in Stages : wf_log[k] = "escaped") => wf_sent' = wf_sent]_vars

\* A document conversion failed at its third poll, after two polls that
\* found the job still running, and a workflow run in which the handler of
\* the second stage failed went on to its last stage.
C21_Witness ==
    /\ \E t \in tool :
          /\ t.name = "convert_document_to_markdown"
          /\ t.failed # None
          /\ t.polls = 3
          /\ t.pc = "returned"
    /\ wf_pc = "returned"
    /\ wf_log[2] = "handler_failed"
    /\ Len(wf_sent) >= 4

(***************************************************************************)
(* Further claims about the workflow driver (specification SpecWorkflow)   *)
(***************************************************************************)
\* The stages whose handler failed, whatever it raised.
FailedStages == {k \in Stages : wf_log[k] \in {"handler_failed", "propagated"}}

\* C25 as stated: a handler failure in a stage does not abort the run: the
\* failed-alert payload is recorded as that stage's result and the run goes
\* on to return its aggregate.
C25_AnyHandlerFailureDoesNotAbort ==
    \A k \in FailedStages :
        /\ wf_pc # "raised"
        /\ StageResult(k) # None
        /\ FailedPayload(TheValue(StageResult(k)))

\* C25 as amended: a handler failure that is an Exception does not abort the
\* run.  In a returned run from whose stages no exception escaped, the field
\* of every stage whose handler failed holds the failed-alert payload (the
\* error text and status "failed"), every later stage's request was sent,
\* stage 4 exactly when the recorded signal is BUY, and the aggregate has
\* success = true and no errors.  A handler that raises a BaseException that
\* is not an Exception does abort the run: the stage's field stays None and
\* the driver raises instead of returning the aggregate.
C25_HandlerFailureDoesNotAbort ==
    /\ \A k \in Stages :
          wf_log[k] = "propagated" =>
              (wf_pc = "raised" /\ StageResult(k) = None)
    /\ wf_pc = "raised" => \E k \in Stages : wf_log[k] = "propagated"
    /\ (wf_pc = "returned" /\ \A k \in Stages : wf_log[k] # "escaped") =>
        /\ Aggregate.success
        /\ Aggregate.errors = <<>>
        /\ \A k \in Stages :
              wf_log[k] = "handler_failed" =>
                  /\ StageResult(k) # None
                  /\ FailedPayload(TheValue(StageResult(k)))
                  /\ \A j \in (k + 1)..5 :
                        IF j = 4
                        THEN wf_log[4] # "unsent" <=> TacticalSignal = Some("BUY")
                        ELSE wf_log[j] # "unsent"

\* A run has returned in which the handlers of the first and of the fourth
\* stage failed and the last stage was answered.
C25_Witness ==
    /\ wf_pc = "returned"
    /\ wf_log[1] = "handler_failed"
    /\ wf_log[4] = "handler_failed"
    /\ wf_log[5] = "returned"
    /\ Aggregate.success

(***************************************************************************)
(* Further claims about the system's mappings (specification SpecSystem)   *)
(***************************************************************************)
\* C26: no step modifies an entry of the name-to-state mapping, and every
\* report of get_system_status gives the status "idle" for each of the six
\* agents, whatever the agents' own status fields hold.
C26_RegistryNeverUpdated ==
    /\ [](\A k \in AgentKeys : agent_registry[k].status = "idle")
    /\ [](\A r \in status_report :
            /\ DOMAIN r.agent_states = AgentKeys
            /\ \A k \in AgentKeys : r.agent_states[k].status = "idle")
    /\ [][\A k \in AgentKeys : agent_registry'[k] = agent_registry[k]]_vars

\* A status report exists while the monitoring agent, whose handler failed,
\* is in status "error" and an agent of the workflow is processing.
C26_Witness ==
    /\ status_report # None
    /\ agent_state["realtime_risk"] = "error"
    /\ \E k \in AgentKeys : agent_state[k] = "processing"

(***************************************************************************)
(* Further claims about the router (specification Spec)                    *)
(***************************************************************************)
\* The calls that send_message refused because the target is not registered.
RefusedCalls ==
    {f \in UNION {completed[c] : c \in Callers} : f.agent = None /\ ~f.outcome.raised}

\* The layer and agent a message names as its sender, and as its addressee.
SenderOf(m) == <<m.source_layer, m.source_agent>>
AddresseeOf(m) == <<m.target_layer, m.target_agent>>

\* C27: the "Agent not found" alert is not built as a response is: it is
\* addressed to the request's own target layer and agent, not to the
\* request's source (it names the sender only when the sender addressed
\* the request to itself); its priority is high whatever the request's
\* priority; and its metadata holds the request's identifier under
\* "original_message_id" and has no "response_to" entry.
C27_NotFoundAlertOffContract ==
    \A f \in RefusedCalls :
        LET alert == TheValue(f.outcome.message)
        IN  /\ AddresseeOf(alert) = AddresseeOf(f.request)
            /\ AddresseeOf(alert) = SenderOf(f.request)
                   <=> AddresseeOf(f.request) = SenderOf(f.request)
            /\ f.request.target_agent \notin DOMAIN agents
            /\ alert.source_agent = "system"
            /\ alert.priority = "high"
            /\ DOMAIN alert.metadata = {"original_message_id"}
            /\ alert.metadata.original_message_id = f.request.message_id

\* A low-priority request from another layer than its target's was refused:
\* the alert is addressed to the unregistered target, not to the sender.
C27_Witness ==
    \E f \in RefusedCalls :
        /\ f.request.priority = "low"
        /\ f.request.target_agent = "unknown_agent"
        /\ f.request.source_layer # f.request.target_layer
        /\ TheValue(f.outcome.message).priority = "high"
        /\ AddresseeOf(TheValue(f.outcome.message)) # SenderOf(f.request)

\* The display names of the registered agents.
DisplayNames == {agents[k].name : k \in DOMAIN agents}

\* C28: a response of a registered agent, error alerts included, names as
\* its source the agent's display name, which is no key of the registry;
\* and every message sent to a display name, in particular the client's
\* answer to a response, is refused with the "Agent not found" alert and
\* reaches no handler.
C28_ResponsesCannotBeAnswered ==
    \A f \in UNION {completed[c] : c \in Callers} :
        /\ (f.handler_ran /\ ~f.outcome.raised) =>
              LET response == TheValue(f.outcome.message)
              IN  /\ response.source_agent = agents[TheValue(f.agent)].name
                  /\ response.source_agent \notin DOMAIN agents
        /\ f.request.target_agent \in DisplayNames =>
              /\ f.agent = None
              /\ ~f.handler_ran
              /\ ~f.outcome.raised
              /\ TheValue(f.outcome.message).message_type = "alert"
              /\ TheValue(f.outcome.message).payload = [error |-> "Agent not found"]

\* The client's answer to a response of the task scheduler was refused.
C28_Witness ==
    \E f \in completed["client"] :
        /\ f.request.target_agent = "TaskScheduler"
        /\ f.request.target_layer = "coordination"
        /\ f.agent = None
        /\ TheValue(f.outcome.message).payload = [error |-> "Agent not found"]

(***************************************************************************)
(* Claims about successive runs of the driver (specification SpecRuns)     *)
(***************************************************************************)
\* C29: a returned aggregate has success = false exactly when its error list
\* is not empty; every invocation starts from an aggregate with success
\* true, no errors and no stage field set; and what an aggregate holds stems
\* from its own run: a stage field is set only if that stage's request of
\* this run was answered, and the error list holds at most the one exception
\* that escaped this run.
C29_AggregatePerRun ==
    /\ [](wf_pc = "returned" =>
            (~Aggregate.success <=> Aggregate.errors # <<>>))
    /\ [][wf_runs' # wf_runs =>
            result' = {[portfolio_allocation |-> {}, risk_assessment |-> {},
                        strategy_recommendation |-> {}, execution_plan |-> {},
                        risk_monitoring |-> {}, success |-> TRUE,
                        errors |-> <<>>]}]_vars
    /\ [](result # None =>
            /\ \A k \in Stages : StageResult(k) # None => wf_log[k] \in Answered
            /\ Len(Aggregate.errors) <= 1
            /\ Aggregate.errors # <<>> => \E k \in Stages : wf_log[k] = "escaped")

\* The second run has returned with success and without errors, all its
\* stages but the fourth answered, after a first run that was aborted by an
\* exception at its second stage (the risk manager received one request, the
\* portfolio manager two).
C29_Witness ==
    /\ wf_runs = 2
    /\ wf_pc = "returned"
    /\ Aggregate.success
    /\ Aggregate.errors = <<>>
    /\ Aggregate.risk_monitoring # None
    /\ Cardinality(DOMAIN memory["portfolio_manager"]) = 2
    /\ Cardinality(DOMAIN memory["risk_manager"]) = 1

====
